---- MODULE Spec2Model ----
(***************************************************************************)
(* Model of the location-intelligence tool layer of prod-gis:              *)
(*   - formatMapDataTool   (src/src/mastra/tools/execute-plan-tool.ts)     *)
(*   - executePlanTool     (src/src/mastra/tools/execute-plan-tool.ts)     *)
(*   - fetchWithRetry      (src/unnamed/part_002)                          *)
(*   - getGooglePlacesInsightsTool                                         *)
(*                 (src/src/mastra/tools/google-places-insights-tool.ts)   *)
(*   - PlacesService.process*Query, formatAgentResponseDirect,             *)
(*     processUnifiedChat  (src/src/places/places.service.ts)              *)
(* Each component has its own specification (SpecFormat, SpecPlan,         *)
(* SpecBatch for two dispatcher invocations at once, SpecRetry and         *)
(* SpecRetryFair, SpecInsights, SpecService, SpecUnified); the variables   *)
(* of the other components stay at their initial values.                   *)
(***************************************************************************)
EXTENDS Integers, Sequences, FiniteSets, TLC

VARIABLES
    rawData,      \* formatMapDataTool: context.rawData, key -> payload
    fmtPc,        \* formatMapDataTool: "input" while rawData is assembled, "done" after execute
    fmtOut,       \* formatMapDataTool: the returned FeatureCollection
    planLen,      \* executePlanTool: plan.length
    calls,        \* executePlanTool: the plan items iterated so far, with what was done
    results,      \* executePlanTool: the results object, key -> entry
    planPc,       \* executePlanTool: "running", "returned" or "thrown"
    batches,      \* executePlanTool, concurrent: invocation -> its plan and position
    store,        \* executePlanTool, concurrent: results object -> its contents
    uniReq,       \* processUnifiedChat: the request, by what the routing looks at
    uniPc,        \* processUnifiedChat: "start", "awaiting" or "returned"
    uniHandler,   \* processUnifiedChat: the handler delegated to and how it ended
    uniOut,       \* processUnifiedChat: the outcome returned
    maxRetries,   \* fetchWithRetry: parameter maxRetries
    baseDelay,    \* fetchWithRetry: parameter baseDelay
    attempt,      \* fetchWithRetry: the loop variable
    seen,         \* fetchWithRetry: the outcome of every fetch so far, in order
    waits,        \* fetchWithRetry: the delay of every setTimeout so far, in order
    lastError,    \* fetchWithRetry: the local lastError
    retryPc,      \* fetchWithRetry: "fetch", "returned" or "thrown"
    retryOut,     \* fetchWithRetry: the response returned or the error thrown
    insCtx,       \* insights tool: the validated input (context) and the environment
    insLog,       \* insights tool: requests issued and responses received, in order
    insTotal,     \* insights tool: the local totalCount
    insRadius,    \* insights tool: the local effectiveRadius
    insPc,        \* insights tool: "start", "count", "places", "returned" or "thrown"
    insOut,       \* insights tool: the result returned or the error thrown
    svcOp,        \* PlacesService: the agentType of the domain operation called
    svcPc,        \* PlacesService: "start", "generating" or "returned"
    svcIn,        \* PlacesService: how generate ended
    svcFormat,    \* PlacesService: how formatAgentResponseDirect ended, and its stages
    svcOut        \* PlacesService: the response the operation returned

fmtVars == <<rawData, fmtPc, fmtOut>>
planVars == <<planLen, calls, results, planPc>>
retryVars == <<maxRetries, baseDelay, attempt, seen, waits, lastError, retryPc, retryOut>>
insVars == <<insCtx, insLog, insTotal, insRadius, insPc, insOut>>
svcVars == <<svcOp, svcPc, svcIn, svcFormat, svcOut>>
batchVars == <<batches, store>>
uniVars == <<uniReq, uniPc, uniHandler, uniOut>>
vars == <<fmtVars, planVars, retryVars, insVars, svcVars, batchVars, uniVars>>

\* the variables of the components an action does not belong to
notFmtVars == <<planVars, retryVars, insVars, svcVars, batchVars, uniVars>>
notPlanVars == <<fmtVars, retryVars, insVars, svcVars, batchVars, uniVars>>
notRetryVars == <<fmtVars, planVars, insVars, svcVars, batchVars, uniVars>>
notInsVars == <<fmtVars, planVars, retryVars, svcVars, batchVars, uniVars>>
notSvcVars == <<fmtVars, planVars, retryVars, insVars, batchVars, uniVars>>
notBatchVars == <<fmtVars, planVars, retryVars, insVars, svcVars, uniVars>>
notUniVars == <<fmtVars, planVars, retryVars, insVars, svcVars, batchVars>>

(***************************************************************************)
(* JavaScript values that a JSON-decoded coordinate field can hold.        *)
(* A value is [tag, n, d]: tag "num" is the rational n/d (d >= 1).         *)
(***************************************************************************)
Undefined == [tag |-> "undefined", n |-> 0, d |-> 1]
NaN == [tag |-> "NaN", n |-> 0, d |-> 1]
PosInf == [tag |-> "Infinity", n |-> 0, d |-> 1]
NegInf == [tag |-> "-Infinity", n |-> 0, d |-> 1]
Num(k) == [tag |-> "num", n |-> k, d |-> 1]

FiniteCoords == {Num(0), Num(1)}
\* what a coordinate field of a decoded payload is drawn from: a missing field,
\* a number literal that overflows to Infinity (1e999), a finite number
CoordVals == {Undefined, PosInf} \cup FiniteCoords

\* if (x) ...: undefined, NaN and 0 are falsy
Truthy(v) == ~(v.tag \in {"undefined", "NaN"} \/ (v.tag = "num" /\ v.n = 0))

\* Number(x)
ToNumber(v) == IF v.tag = "undefined" THEN NaN ELSE v

\* Number.isFinite(x) for a number x
IsFiniteNumber(v) == v.tag = "num"

\* a < b for numbers that are finite or +/-Infinity
NumLess(a, b) ==
    CASE a.tag = "-Infinity" -> b.tag # "-Infinity"
      [] a.tag = "Infinity" -> FALSE
      [] b.tag = "Infinity" -> TRUE
      [] b.tag = "-Infinity" -> FALSE
      [] OTHER -> a.n * b.d < b.n * a.d

\* Math.min(a, b), Math.max(a, b) on numbers that are not NaN
MathMin(a, b) == IF NumLess(b, a) THEN b ELSE a
MathMax(a, b) == IF NumLess(a, b) THEN b ELSE a

\* total += x, total a number: x is coerced with ToNumber
JsAdd(total, x) ==
    LET y == ToNumber(x) IN
    CASE total.tag = "NaN" \/ y.tag = "NaN" -> NaN
      [] total.tag = "Infinity" \/ y.tag = "Infinity" -> PosInf
      [] OTHER -> Num(total.n + y.n)

\* total / count, count >= 1
JsDiv(total, count) ==
    IF total.tag = "num" THEN [tag |-> "num", n |-> total.n, d |-> count] ELSE total

(***************************************************************************)
(* formatMapDataTool: the input mapping.                                   *)
(* A payload is [kind, recs]: "absent" (no such key), "empty" ({}),        *)
(* "error" ({error: ...}) or "data" (the provider's fields are present).   *)
(* A record is [pos, lat, lon]: pos says whether the object that holds the *)
(* coordinates (position / location / location.coordinates) is present.    *)
(***************************************************************************)
Providers == {"tomtom", "details", "insights", "events", "ip", "poi", "placeById"}

\* rawData['<camel>'] || rawData['<kebab>']: the two spellings each branch reads
CamelKey(p) ==
    CASE p = "tomtom" -> "tomtomFuzzySearchTool"
      [] p = "details" -> "getGooglePlaceDetailsTool"
      [] p = "insights" -> "getGooglePlacesInsightsTool"
      [] p = "events" -> "searchEventsTool"
      [] p = "ip" -> "getIpLocationTool"
      [] p = "poi" -> "searchPoiTool"
      [] p = "placeById" -> "getPlaceByIdTool"

KebabKey(p) ==
    CASE p = "tomtom" -> "tomtom-fuzzy-search"
      [] p = "details" -> "get-google-place-details"
      [] p = "insights" -> "get-google-places-insights"
      [] p = "events" -> "search-events"
      [] p = "ip" -> "get-ip-location"
      [] p = "poi" -> "search-poi"
      [] p = "placeById" -> "get-place-by-id"

CamelKeys == {CamelKey(p) : p \in Providers}
KebabKeys == {KebabKey(p) : p \in Providers}
RawKeys == CamelKeys \cup KebabKeys

ProviderOfKey(k) == CHOOSE p \in Providers : k \in {CamelKey(p), KebabKey(p)}

\* providers whose payload holds a list (results / places); the others hold one record
ListProviders == {"tomtom", "insights", "events", "poi"}

NoPos == [pos |-> FALSE, lat |-> Undefined, lon |-> Undefined]
CoordRecs == {[pos |-> TRUE, lat |-> a, lon |-> b] : a, b \in CoordVals}
\* an insights entry is a place id: it has no coordinate fields
RecsOf(p) == IF p = "insights" THEN {NoPos} ELSE CoordRecs \cup {NoPos}

Absent == [kind |-> "absent", recs |-> <<>>]

\* Number of payload entries and records the input mapping may hold in all.
MaxRecords == 2

RECURSIVE SumOver(_, _)
SumOver(S, f) ==
    IF S = {} THEN 0
    ELSE LET x == CHOOSE y \in S : TRUE IN f[x] + SumOver(S \ {x}, f)

PayloadSize(pl) ==
    IF pl.kind = "absent" THEN 0
    ELSE IF Len(pl.recs) = 0 THEN 1 ELSE Len(pl.recs)

RawSize(raw) == SumOver(RawKeys, [k \in RawKeys |-> PayloadSize(raw[k])])

\* a || b on payload objects: an object is truthy, a missing key is not
OrElse(a, b) == IF a.kind # "absent" THEN a ELSE b

Lookup(raw, p) == OrElse(raw[CamelKey(p)], raw[KebabKey(p)])

(***************************************************************************)
(* formatMapDataTool.execute: one operator per provider branch.            *)
(***************************************************************************)
\* addFeature({type: 'Point', coordinates: [lon, lat]}, {..., source})
Feature(lon, lat, source) == [type |-> "Point", lon |-> lon, lat |-> lat, source |-> source]

MapSeq(s, Op(_)) == [i \in 1..Len(s) |-> Op(s[i])]

\* if (result.position && result.position.lat && result.position.lon)
HasTruthyPosition(r) == r.pos /\ Truthy(r.lat) /\ Truthy(r.lon)

\* if (data && data.results) for (const result of data.results) ...
PositionFeatures(pl, source) ==
    IF pl.kind = "data"
    THEN MapSeq(SelectSeq(pl.recs, HasTruthyPosition),
                LAMBDA r : Feature(r.lon, r.lat, source))
    ELSE <<>>

TomTomFeatures(raw) == PositionFeatures(Lookup(raw, "tomtom"), "TomTom Fuzzy Search")

\* googlePlaceData.result with place.location.latitude && place.location.longitude
GoogleDetailsFeatures(raw) ==
    PositionFeatures(Lookup(raw, "details"), "Google Place Details")

\* a variant of the insights branch that pins every place id at the origin
InsightsPlaceholders(raw) ==
    LET pl == Lookup(raw, "insights") IN
    IF pl.kind = "data"
    THEN MapSeq(pl.recs, LAMBDA r : Feature(Num(0), Num(0), "Google Places Insights"))
    ELSE <<>>

\* if (googleInsightsData && googleInsightsData.places) { /* skipped */ }
InsightsFeatures(raw) == <<>>

\* if (event.location && event.location.coordinates): the array is copied as is
HasCoordinates(r) == r.pos

EventsFeatures(raw) ==
    LET pl == Lookup(raw, "events") IN
    IF pl.kind = "data"
    THEN MapSeq(SelectSeq(pl.recs, HasCoordinates),
                LAMBDA r : Feature(r.lon, r.lat, "PredictHQ Events"))
    ELSE <<>>

\* a branch that tests only that the entry exists
IpLocationUnguarded(raw) ==
    LET pl == Lookup(raw, "ip") IN
    IF pl.kind = "absent" THEN <<>>
    ELSE IF pl.recs = <<>> THEN <<Feature(Undefined, Undefined, "IP Location")>>
    ELSE MapSeq(pl.recs, LAMBDA r : Feature(r.lon, r.lat, "IP Location"))

\* if (ipLocationData && ipLocationData.latitude && ipLocationData.longitude)
IpLocationFeatures(raw) ==
    LET pl == Lookup(raw, "ip") IN
    IF pl.kind = "data"
    THEN MapSeq(SelectSeq(pl.recs, LAMBDA r : Truthy(r.lat) /\ Truthy(r.lon)),
                LAMBDA r : Feature(r.lon, r.lat, "IP Location"))
    ELSE <<>>

SearchPoiFeatures(raw) == PositionFeatures(Lookup(raw, "poi"), "TomTom POI Search")

\* if (placeByIdData && placeByIdData.position): lon and lat are not looked at
PlaceByIdFeatures(raw) ==
    LET pl == Lookup(raw, "placeById") IN
    IF pl.kind = "data"
    THEN MapSeq(SelectSeq(pl.recs, HasCoordinates),
                LAMBDA r : Feature(r.lon, r.lat, "TomTom Place Details"))
    ELSE <<>>

\* the features array after all branches, in the order the branches run
CollectFeatures(raw) ==
    TomTomFeatures(raw) \o GoogleDetailsFeatures(raw) \o InsightsFeatures(raw)
        \o EventsFeatures(raw) \o IpLocationFeatures(raw) \o SearchPoiFeatures(raw)
        \o PlaceByIdFeatures(raw)

(***************************************************************************)
(* calculateBounds / calculateCenter                                       *)
(***************************************************************************)
NullBounds == [isNull |-> TRUE, north |-> NaN, south |-> NaN, east |-> NaN, west |-> NaN]
NullCenter == [isNull |-> TRUE, lat |-> NaN, lon |-> NaN]

\* the forEach of calculateBounds: acc = [minLat, maxLat, minLon, maxLon]
RECURSIVE BoundsFold(_, _, _)
BoundsFold(features, i, acc) ==
    IF i > Len(features) THEN acc
    ELSE LET f == features[i]
             lon == ToNumber(f.lon)
             lat == ToNumber(f.lat)
         IN IF f.type # "Point" \/ ~IsFiniteNumber(lat) \/ ~IsFiniteNumber(lon)
            THEN BoundsFold(features, i + 1, acc)
            ELSE BoundsFold(features, i + 1,
                     [minLat |-> MathMin(acc.minLat, lat), maxLat |-> MathMax(acc.maxLat, lat),
                      minLon |-> MathMin(acc.minLon, lon), maxLon |-> MathMax(acc.maxLon, lon)])

calculateBounds(features) ==
    IF Len(features) = 0 THEN NullBounds
    ELSE LET acc == BoundsFold(features, 1,
                        [minLat |-> PosInf, maxLat |-> NegInf, minLon |-> PosInf, maxLon |-> NegInf])
         IN IF acc.minLat = PosInf THEN NullBounds
            ELSE [isNull |-> FALSE, north |-> acc.maxLat, south |-> acc.minLat,
                  east |-> acc.maxLon, west |-> acc.minLon]

\* the forEach of calculateCenter: acc = [totalLat, totalLon, count]
RECURSIVE CenterFold(_, _, _)
CenterFold(features, i, acc) ==
    IF i > Len(features) THEN acc
    ELSE LET f == features[i] IN
         IF f.type # "Point" THEN CenterFold(features, i + 1, acc)
         ELSE CenterFold(features, i + 1,
                  [totalLat |-> JsAdd(acc.totalLat, f.lat),
                   totalLon |-> JsAdd(acc.totalLon, f.lon),
                   count |-> acc.count + 1])

calculateCenter(features) ==
    IF Len(features) = 0 THEN NullCenter
    ELSE LET acc == CenterFold(features, 1,
                        [totalLat |-> Num(0), totalLon |-> Num(0), count |-> 0])
         IN IF acc.count = 0 THEN NullCenter
            ELSE [isNull |-> FALSE, lat |-> JsDiv(acc.totalLat, acc.count),
                  lon |-> JsDiv(acc.totalLon, acc.count)]

\* the object formatMapDataTool.execute returns
FormatResult(raw) ==
    LET features == CollectFeatures(raw) IN
    [type |-> "FeatureCollection",
     features |-> features,
     bounds |-> calculateBounds(features),
     center |-> calculateCenter(features),
     totalFeatures |-> Len(features),
     sources |-> {features[i].source : i \in 1..Len(features)}]

NoResult ==
    [type |-> "none", features |-> <<>>, bounds |-> NullBounds, center |-> NullCenter,
     totalFeatures |-> 0, sources |-> {}]

(***************************************************************************)
(* formatMapDataTool as a state machine: the caller assembles rawData,     *)
(* then execute runs once.                                                 *)
(***************************************************************************)
FmtInit ==
    /\ rawData = [k \in RawKeys |-> Absent]
    /\ fmtPc = "input"
    /\ fmtOut = NoResult

\* one request uses one spelling of the tool ids for all its keys
SameSpelling(raw, k) ==
    \A k2 \in RawKeys : raw[k2].kind # "absent" => ((k2 \in CamelKeys) <=> (k \in CamelKeys))

\* a provider result with one more record under key k
ProvideRecord(k, r) ==
    /\ SameSpelling(rawData, k)
    /\ r \in RecsOf(ProviderOfKey(k))
    /\ \/ rawData[k].kind = "absent"
       \/ rawData[k].kind = "data" /\ ProviderOfKey(k) \in ListProviders
    /\ rawData' = [rawData EXCEPT ![k] = [kind |-> "data", recs |-> Append(@.recs, r)]]
    /\ UNCHANGED <<fmtPc, fmtOut>>

\* an entry without provider fields ({} or {error}), or an empty result list
ProvideNoRecord(k, kind) ==
    /\ SameSpelling(rawData, k)
    /\ rawData[k].kind = "absent"
    /\ kind = "data" => ProviderOfKey(k) \in ListProviders
    /\ rawData' = [rawData EXCEPT ![k] = [kind |-> kind, recs |-> <<>>]]
    /\ UNCHANGED <<fmtPc, fmtOut>>

FormatMapData ==
    /\ fmtPc = "input"
    /\ fmtOut' = FormatResult(rawData)
    /\ fmtPc' = "done"
    /\ UNCHANGED <<rawData, notFmtVars>>

\* the caller adds one entry or record to the mapping it will pass as rawData
Provide ==
    /\ fmtPc = "input"
    /\ RawSize(rawData) < MaxRecords
    /\ \/ \E k \in RawKeys, r \in CoordRecs \cup {NoPos} : ProvideRecord(k, r)
       \/ \E k \in RawKeys, kind \in {"empty", "error", "data"} : ProvideNoRecord(k, kind)
    /\ UNCHANGED notFmtVars

FmtNext ==
    \/ Provide
    \/ FormatMapData

(***************************************************************************)
(* executePlanTool.execute                                                 *)
(* A tool id is [pre, name]: the string made of pre copies of 'functions.' *)
(* followed by name.                                                       *)
(***************************************************************************)
RECURSIVE IdString(_)
IdString(id) ==
    IF id.pre = 0 THEN id.name
    ELSE "functions." \o IdString([pre |-> id.pre - 1, name |-> id.name])

\* if (!toolId || typeof toolId !== 'string') continue;
IsUsableId(id) == IdString(id) # ""

\* if (toolId.startsWith('functions.')) toolId = toolId.substring('functions.'.length)
StripPrefix(id) == IF id.pre > 0 THEN [pre |-> id.pre - 1, name |-> id.name] ELSE id

aliasMap ==
    [n \in {"executePlanTool", "execute-plan"} |-> "execute-plan"] @@
    [n \in {"planTool", "plan-query"} |-> "plan-query"] @@
    [n \in {"tomtomFuzzySearchTool", "tomtom-fuzzy-search"} |-> "tomtom-fuzzy-search"] @@
    [n \in {"searchPoiTool", "search-poi"} |-> "search-poi"] @@
    [n \in {"getPlaceByIdTool", "get-place-by-id"} |-> "get-place-by-id"] @@
    [n \in {"getGooglePlaceDetailsTool", "get-google-place-details"} |->
        "get-google-place-details"] @@
    [n \in {"getGooglePlacesInsightsTool", "get-google-places-insights"} |->
        "get-google-places-insights"] @@
    [n \in {"searchEventsTool", "search-events"} |-> "search-events"] @@
    [n \in {"getIpLocationTool", "get-ip-location"} |-> "get-ip-location"] @@
    [n \in {"getWeatherTool", "get-weather"} |-> "get-weather"] @@
    [n \in {"getFootTrafficTool", "get-foot-traffic-forecast"} |->
        "get-foot-traffic-forecast"] @@
    [n \in {"getFootTrafficSummaryTool", "get-foot-traffic-summary"} |->
        "get-foot-traffic-summary"] @@
    [n \in {"getPoiPhotosTool", "get-poi-photos"} |-> "get-poi-photos"] @@
    [n \in {"getAggregatedMetricTool", "get-aggregated-metric"} |->
        "get-aggregated-metric"] @@
    [n \in {"formatMapDataTool", "format-map-data"} |-> "format-map-data"]

\* aliasMap is an object literal: a name it does not define but Object.prototype
\* does (aliasMap['constructor']) reads the inherited member, which is neither
\* null nor undefined; used as a property key it is converted to this string
InheritedMember ==
    [n \in {"constructor"} |-> "function Object() { [native code] }"] @@
    [n \in {"toString"} |-> "function toString() { [native code] }"] @@
    [n \in {"__proto__"} |-> "[object Object]"]

\* const canonicalId = aliasMap[toolId] ?? toolId, as the key results[canonicalId] uses
CanonicalId(id) ==
    LET toolId == IdString(id) IN
    IF toolId \in DOMAIN aliasMap THEN aliasMap[toolId]
    ELSE IF toolId \in DOMAIN InheritedMember THEN InheritedMember[toolId]
    ELSE toolId

\* a guard that forgets the planning tool
GuardsExecutePlanOnly(canonicalId) == canonicalId = "execute-plan"

\* if (canonicalId === 'execute-plan' || canonicalId === 'plan-query')
IsMetaTool(canonicalId) == canonicalId \in {"execute-plan", "plan-query"}

\* the cases of switch (canonicalId) that bind toolInstance
Registry ==
    {"tomtom-fuzzy-search", "search-poi", "get-place-by-id", "get-google-place-details",
     "get-google-places-insights", "search-events", "get-ip-location", "get-weather",
     "get-foot-traffic-forecast", "get-foot-traffic-summary", "get-poi-photos",
     "get-aggregated-metric", "format-map-data"}

RecursionEntry == [kind |-> "error", val |-> "Recursive/plan call prevented during execution"]
EmptyEntry == [kind |-> "empty", val |-> ""]
ResultEntry(r) == [kind |-> "result", val |-> r]

\* an assignment that keeps the entry a key already has
PutKeepsFirst(res, key, entry) ==
    [k \in DOMAIN res \cup {key} |-> IF k \in DOMAIN res THEN res[k] ELSE entry]

\* results[key] = entry
Put(res, key, entry) == [k \in DOMAIN res \cup {key} |-> IF k = key THEN entry ELSE res[k]]

\* a catch block that lets the error escape execute
CatchRethrows(res, canonicalId, message) == [results |-> res, pc |-> "thrown"]

\* catch (err): results[canonicalId] = {error: e.message || 'Unknown error ...'}
CatchBlock(res, canonicalId, message) ==
    [results |-> Put(res, canonicalId,
                     [kind |-> "error",
                      val |-> IF message # "" THEN message
                              ELSE "Unknown error during tool execution"]),
     pc |-> "running"]

\* the try block: import the tool and await its execute, or store {}
TryBlock(res, canonicalId, outcome) ==
    IF canonicalId \in Registry
    THEN IF outcome.kind = "return"
         THEN [results |-> Put(res, canonicalId, ResultEntry(outcome.val)), pc |-> "running"]
         ELSE CatchBlock(res, canonicalId, outcome.val)
    ELSE [results |-> Put(res, canonicalId, EmptyEntry), pc |-> "running"]

\* the recursion guard: store the rejection and continue
GuardBlock(res, canonicalId) ==
    [results |-> Put(res, canonicalId, RecursionEntry), pc |-> "running"]

\* what one iteration does with the tool id: "skipped" (continue), "rejected"
\* (recursion guard), "executed" (a tool implementation ran) or "missing"
Disposition(id) ==
    IF ~IsUsableId(id) THEN "skipped"
    ELSE LET canonicalId == CanonicalId(StripPrefix(id)) IN
         IF IsMetaTool(canonicalId) THEN "rejected"
         ELSE IF canonicalId \in Registry THEN "executed"
         ELSE "missing"

\* one iteration of for (const toolCall of plan)
LoopBody(res, id, outcome) ==
    IF ~IsUsableId(id) THEN [results |-> res, pc |-> "running"]
    ELSE LET canonicalId == CanonicalId(StripPrefix(id)) IN
         IF IsMetaTool(canonicalId) THEN GuardBlock(res, canonicalId)
         ELSE TryBlock(res, canonicalId, outcome)

\* Number of items of the longest plan.
MaxPlan == 3

\* the tool ids the plans are drawn from
PlanIds ==
    {[pre |-> 0, name |-> "executePlanTool"], [pre |-> 0, name |-> "execute-plan"],
     [pre |-> 1, name |-> "planTool"], [pre |-> 0, name |-> "plan-query"],
     [pre |-> 2, name |-> "planTool"],
     [pre |-> 0, name |-> "tomtomFuzzySearchTool"], [pre |-> 0, name |-> "tomtom-fuzzy-search"],
     [pre |-> 1, name |-> "tomtom-fuzzy-search"], [pre |-> 0, name |-> "get-weather"],
     [pre |-> 0, name |-> "unknown-tool"], [pre |-> 1, name |-> "unknown-tool"],
     [pre |-> 0, name |-> "constructor"], [pre |-> 0, name |-> ""]}

\* what awaiting a tool's execute can do: resolve with a value, or reject with
\* an Error whose message may be empty
NoOutcome == [kind |-> "none", val |-> ""]
ToolOutcomes ==
    {[kind |-> "return", val |-> r] : r \in {"r1", "r2"}} \cup
    {[kind |-> "throw", val |-> m] : m \in {"m1", ""}}

OutcomesOf(id) == IF Disposition(id) = "executed" THEN ToolOutcomes ELSE {NoOutcome}

EmptyResults == [k \in {} |-> EmptyEntry]

PlanInit ==
    /\ planLen \in 0..MaxPlan
    /\ calls = <<>>
    /\ results = EmptyResults
    /\ planPc = "running"

\* the next item of the plan is iterated
ProcessToolCall(id, outcome) ==
    /\ planPc = "running"
    /\ Len(calls) < planLen
    /\ outcome \in OutcomesOf(id)
    /\ LET step == LoopBody(results, id, outcome) IN
        /\ results' = step.results
        /\ planPc' = step.pc
    /\ calls' = Append(calls, [id |-> id, outcome |-> outcome, before |-> results])
    /\ UNCHANGED <<planLen, notPlanVars>>

\* the loop is over: return results
ReturnResults ==
    /\ planPc = "running"
    /\ Len(calls) = planLen
    /\ planPc' = "returned"
    /\ UNCHANGED <<planLen, calls, results, notPlanVars>>

PlanNext ==
    \/ \E id \in PlanIds, outcome \in ToolOutcomes \cup {NoOutcome} : ProcessToolCall(id, outcome)
    \/ ReturnResults

(***************************************************************************)
(* executePlanTool.execute called twice at once (two requests of the       *)
(* server).  Code between two awaits runs without interruption, so an      *)
(* iteration is one step up to its await and one step after it.            *)
(***************************************************************************)
Invocations == {1, 2}

\* Number of items of the longest plan of a concurrent invocation.
MaxBatchPlan == 2

\* the tool ids the concurrent plans are drawn from
BatchIds ==
    {[pre |-> 0, name |-> "tomtomFuzzySearchTool"], [pre |-> 1, name |-> "get-weather"],
     [pre |-> 0, name |-> "execute-plan"]}

BatchPlans == UNION {[1..n -> BatchIds] : n \in 0..MaxBatchPlan}
BatchOutcomes == {[kind |-> "return", val |-> "r1"], [kind |-> "throw", val |-> "m1"]}

\* a results object declared at module scope, shared by all invocations
ModuleScopeHolder(inv) == 1

\* const results = {} inside execute: every invocation has an object of its own
ResultsHolder(inv) == inv

\* a dispatcher that goes on to the next item while calls are pending
FiresWithoutAwait(inflight) == TRUE

\* await toolInstance.execute(...): the function resumes once the call settled
AwaitsExecute(inflight) == inflight = {}

\* an invocation at the entry of execute: started counts the iterations begun,
\* inflight holds the items whose execute was called and has not settled,
\* outcomes records how each call settled
NewInvocation(plan) ==
    [plan |-> plan, started |-> 0, inflight |-> {},
     outcomes |-> [i \in 1..Len(plan) |-> NoOutcome], pc |-> "running", out |-> EmptyResults]

BatchInit ==
    /\ batches \in [Invocations -> {NewInvocation(plan) : plan \in BatchPlans}]
    /\ store = [holder \in Invocations |-> EmptyResults]

\* the next iteration of the loop, up to its await; an iteration that awaits
\* nothing (recursion guard, missing implementation) runs to its end
BeginIteration(inv) ==
    LET b == batches[inv]
        i == b.started + 1
    IN  /\ b.pc = "running"
        /\ b.started < Len(b.plan)
        /\ AwaitsExecute(b.inflight)
        /\ IF Disposition(b.plan[i]) = "executed"
           THEN /\ batches' = [batches EXCEPT ![inv].started = i,
                                              ![inv].inflight = @ \cup {i}]
                /\ UNCHANGED store
           ELSE /\ batches' = [batches EXCEPT ![inv].started = i]
                /\ store' = [store EXCEPT ![ResultsHolder(inv)] =
                                LoopBody(@, b.plan[i], NoOutcome).results]
        /\ UNCHANGED notBatchVars

\* a pending execute resolves or rejects and the iteration runs to its end
ExecuteSettles(inv, outcome) ==
    /\ \E i \in batches[inv].inflight :
        /\ batches' = [batches EXCEPT ![inv].inflight = @ \ {i},
                                      ![inv].outcomes[i] = outcome]
        /\ store' = [store EXCEPT ![ResultsHolder(inv)] =
                        LoopBody(@, batches[inv].plan[i], outcome).results]
    /\ UNCHANGED notBatchVars

\* the loop is over: return results
BatchReturns(inv) ==
    /\ batches[inv].pc = "running"
    /\ batches[inv].started = Len(batches[inv].plan)
    /\ AwaitsExecute(batches[inv].inflight)
    /\ batches' = [batches EXCEPT ![inv].pc = "returned",
                                  ![inv].out = store[ResultsHolder(inv)]]
    /\ UNCHANGED <<store, notBatchVars>>

BatchNext ==
    \/ \E inv \in Invocations : BeginIteration(inv)
    \/ \E inv \in Invocations, outcome \in BatchOutcomes : ExecuteSettles(inv, outcome)
    \/ \E inv \in Invocations : BatchReturns(inv)

(***************************************************************************)
(* fetchWithRetry(url, options, maxRetries, baseDelay)                     *)
(***************************************************************************)
\* Largest maxRetries a call is made with.
MaxRetriesLimit == 3

BaseDelays == {1, 1000}
Statuses == {200, 429, 500}
Bodies == {"b1", "b2"}

\* what await fetch(url, options) can do: resolve with a response, or reject
FetchOutcomes ==
    {[kind |-> "response", status |-> st, body |-> b] : st \in Statuses, b \in Bodies} \cup
    {[kind |-> "networkError", status |-> 0, body |-> ""]}

NoError == [kind |-> "none", attempts |-> 0, body |-> ""]
NetworkError == [kind |-> "networkError", attempts |-> 0, body |-> ""]
\* new Error(`TomTom API rate limit exceeded after ${maxRetries + 1} attempts: ${errorText}`)
RateLimitError(retries, errorText) ==
    [kind |-> "rateLimitExceeded", attempts |-> retries + 1, body |-> errorText]

NoResponse == [kind |-> "none", status |-> 0, body |-> ""]

\* a backoff that grows by one base delay per attempt
LinearDelay(base, n) == base * (n + 1)

\* baseDelay * Math.pow(2, attempt)
BackoffDelay(base, n) == base * 2^n

\* a retry test that also waits after the last attempt
RetriesAfterLastAttempt(n, retries) == n <= retries

\* if (attempt < maxRetries)
ShouldRetry(n, retries) == n < retries

\* response.ok || response.status !== 429
ReturnsImmediately(response) ==
    (response.status >= 200 /\ response.status <= 299) \/ response.status # 429

RetryInit ==
    /\ maxRetries \in 0..MaxRetriesLimit
    /\ baseDelay \in BaseDelays
    /\ attempt = 0
    /\ seen = <<>>
    /\ waits = <<>>
    /\ lastError = NoError
    /\ retryPc = "fetch"
    /\ retryOut = [response |-> NoResponse, error |-> NoError]

\* one iteration of the for loop in which fetch resolves with `response`
FetchResponds(response) ==
    /\ retryPc = "fetch"
    /\ attempt <= maxRetries
    /\ response.kind = "response"
    /\ seen' = Append(seen, response)
    /\ IF ReturnsImmediately(response)
       THEN /\ retryPc' = "returned"
            /\ retryOut' = [response |-> response, error |-> NoError]
            /\ UNCHANGED <<attempt, waits, lastError>>
       ELSE IF ShouldRetry(attempt, maxRetries)
       THEN /\ waits' = Append(waits, BackoffDelay(baseDelay, attempt))
            /\ attempt' = attempt + 1
            /\ UNCHANGED <<retryPc, retryOut, lastError>>
       ELSE \* lastError is set, attempt++ ends the loop, throw lastError
            /\ lastError' = RateLimitError(maxRetries, response.body)
            /\ attempt' = attempt + 1
            /\ retryPc' = "thrown"
            /\ retryOut' = [response |-> NoResponse, error |-> lastError']
            /\ UNCHANGED waits
    /\ UNCHANGED <<maxRetries, baseDelay, notRetryVars>>

\* a catch block that gives up at the first network error
BreaksAtFirstError(n, retries) == TRUE

\* if (attempt === maxRetries) break;
BreaksOut(n, retries) == n = retries

\* one iteration of the for loop in which fetch rejects: the catch block, and
\* throw lastError after the break
FetchFails ==
    /\ retryPc = "fetch"
    /\ attempt <= maxRetries
    /\ seen' = Append(seen, [kind |-> "networkError", status |-> 0, body |-> ""])
    /\ lastError' = NetworkError
    /\ IF BreaksOut(attempt, maxRetries)
       THEN /\ retryPc' = "thrown"
            /\ retryOut' = [response |-> NoResponse, error |-> NetworkError]
            /\ UNCHANGED <<attempt, waits>>
       ELSE /\ waits' = Append(waits, BackoffDelay(baseDelay, attempt))
            /\ attempt' = attempt + 1
            /\ UNCHANGED <<retryPc, retryOut>>
    /\ UNCHANGED <<maxRetries, baseDelay, notRetryVars>>

RetryNext ==
    \/ \E response \in FetchOutcomes : FetchResponds(response)
    \/ FetchFails

(***************************************************************************)
(* getGooglePlacesInsightsTool.execute: a count-only request, then at most *)
(* one listing request with a radius scaled to the count.                  *)
(***************************************************************************)
MAX_PLACES == 100
MinListingRadius == 50
DefaultBiRadius == 1000

\* text is a sequence of one-character strings
Digits == <<"0", "1", "2", "3", "4", "5", "6", "7", "8", "9">>
IsDigit(c) == \E d \in 1..10 : Digits[d] = c
DigitValue(c) == (CHOOSE d \in 1..10 : Digits[d] = c) - 1

\* a JavaScript number that is a non-negative integer, or NaN
NotANumber == [nan |-> TRUE, n |-> 0]
Whole(k) == [nan |-> FALSE, n |-> k]

RECURSIVE DecimalText(_)
DecimalText(k) ==
    IF k < 10 THEN <<Digits[k + 1]>>
    ELSE DecimalText(k \div 10) \o <<Digits[(k % 10) + 1]>>

\* String(x)
StringOf(v) == IF v.nan THEN <<"N", "a", "N">> ELSE DecimalText(v.n)

RECURSIVE ParseDigits(_, _, _)
ParseDigits(s, i, acc) ==
    IF i > Len(s) \/ ~IsDigit(s[i]) THEN acc
    ELSE ParseDigits(s, i + 1, 10 * acc + DigitValue(s[i]))

\* parseInt(s): the leading decimal digits of s, NaN when s starts with none
parseInt(s) ==
    IF s = <<>> \/ ~IsDigit(s[1]) THEN NotANumber ELSE Whole(ParseDigits(s, 1, 0))

\* the count field of a decoded response body
NoCount == [type |-> "undefined", num |-> 0, text |-> <<>>]
CountNumber(k) == [type |-> "number", num |-> k, text |-> <<>>]
CountString(s) == [type |-> "string", num |-> 0, text |-> s]

\* totalCount
TotalCount(countVal) ==
    IF countVal.type = "number" THEN Whole(countVal.num)
    ELSE IF countVal.type = "string" THEN parseInt(countVal.text)
    ELSE Whole(0)

\* a listing that does not depend on the insights asked for
AlwaysWantsPlaces(ctx) == TRUE

\* context.insights.includes('INSIGHT_PLACES')
WantsPlaces(ctx) == "INSIGHT_PLACES" \in ctx.insights

\* locationFilter.circle?.radius of a filter without a circle (undefined)
NoRadius == 0

RECURSIVE SqrtSearch(_, _, _)
SqrtSearch(x, lo, hi) ==
    IF lo = hi THEN lo
    ELSE LET mid == (lo + hi + 1) \div 2
         IN  IF mid * mid <= x THEN SqrtSearch(x, mid, hi) ELSE SqrtSearch(x, lo, mid - 1)

\* floor(sqrt(x)) for 0 <= x < 2^31
ISqrt(x) == SqrtSearch(x, 0, 46340)

\* Math.floor(circle.radius * scale), scale = Math.sqrt(MAX_PLACES / totalCount) * 0.9:
\* the largest n with n^2 <= radius^2 * MAX_PLACES * 0.81 / totalCount, in exact
\* arithmetic (MAX_PLACES * 0.81 is the integer 81)
FlooredScaledRadius(radius, totalCount) ==
    ISqrt((radius * radius * ((MAX_PLACES * 81) \div 100)) \div totalCount)

\* newRadius without the lower limit
UnclampedRadius(radius, totalCount) == FlooredScaledRadius(radius, totalCount)

\* newRadius
NewRadius(radius, totalCount) ==
    IF FlooredScaledRadius(radius, totalCount) > MinListingRadius
    THEN FlooredScaledRadius(radius, totalCount)
    ELSE MinListingRadius

\* effectiveRadius when the listing request is built
EffectiveRadius(ctx, total) ==
    IF ~total.nan /\ total.n > MAX_PLACES /\ ctx.radius # NoRadius
    THEN NewRadius(ctx.radius, total.n)
    ELSE ctx.radius

\* inputs of one call
MaxListed == 2
Radii == {1, 10, 50, 60, 1000, 5000}
Counts == {0, 100, 101, 400, 1000}
InsightSets == SUBSET {"INSIGHT_COUNT", "INSIGHT_PLACES"}
AnalysisTypes == {"CUSTOM", "MARKET_DENSITY"}
InsContexts ==
    [apiKey : BOOLEAN, insights : InsightSets, radius : Radii \cup {NoRadius},
     analysisType : AnalysisTypes]

CountVals ==
    {NoCount, CountString(<<"x">>)}
        \cup {CountNumber(k) : k \in Counts}
        \cup {CountString(DecimalText(k)) : k \in Counts}

\* placeInsights of a decoded body: undefined, or place resource names
NoPlaceInsights == [present |-> FALSE, list |-> <<>>]
PlaceNames == {"places/a", "places/b"}
PlaceLists == UNION {[1..n -> PlaceNames] : n \in 0..MaxListed}
PlaceInsights(list) == [present |-> TRUE, list |-> list]

\* what a fetch ends with: a rejection, or a response with a status and a body
\* that decodes as JSON or does not
InsStatuses == {200, 429, 500}
Rejected == [kind |-> "rejected", status |-> 0, json |-> FALSE, count |-> NoCount,
             placeInsights |-> NoPlaceInsights]
HttpResponse(status, json, count, placeInsights) ==
    [kind |-> "response", status |-> status, json |-> json, count |-> count,
     placeInsights |-> placeInsights]
CountResponses ==
    {Rejected}
        \cup {HttpResponse(s, FALSE, NoCount, NoPlaceInsights) : s \in InsStatuses}
        \cup {HttpResponse(200, TRUE, c, NoPlaceInsights) : c \in CountVals}
PlacesResponses ==
    {Rejected}
        \cup {HttpResponse(s, FALSE, NoCount, NoPlaceInsights) : s \in InsStatuses}
        \cup {HttpResponse(200, TRUE, NoCount, NoPlaceInsights)}
        \cup {HttpResponse(200, TRUE, NoCount, PlaceInsights(l)) : l \in PlaceLists}

\* response.ok
IsOk(resp) == resp.status \in 200..299

\* the log of fetches: a request with the insight asked for and the circle radius
\* of its filter, and how each fetch ended
Request(insight, radius) ==
    [ev |-> "request", insight |-> insight, radius |-> radius, status |-> 0]
Ended(insight, resp) ==
    [ev |-> resp.kind, insight |-> insight, radius |-> NoRadius, status |-> resp.status]

\* the result object; error is "" while nothing was thrown
NoText == [present |-> FALSE, text |-> <<>>]
NoInsResult ==
    [count |-> NoText, places |-> NoPlaceInsights, searchRadius |-> NoRadius,
     competitionLevel |-> "", error |-> ""]
Thrown(message) == [NoInsResult EXCEPT !.error = message]

\* effectiveRadius || circle.radius || 1000
RadiusForBi(ctx, effectiveRadius) ==
    IF effectiveRadius # NoRadius THEN effectiveRadius
    ELSE IF ctx.radius # NoRadius THEN ctx.radius
    ELSE DefaultBiRadius

\* the continued fraction of Math.PI, far enough to tell it from every
\* fraction whose denominator is below 5 * 10^8
PiTerms == <<3, 7, 15, 1, 292, 1, 1, 1, 2, 1, 3, 1, 14, 2, 1, 1, 2, 2>>

\* q / m < pi, decided on the k-th terms of the two continued fractions: the
\* first differing term decides, in the sense of the term's parity
RECURSIVE BelowPi(_, _, _)
BelowPi(q, m, k) ==
    IF m = 0 THEN k % 2 = 0
    ELSE LET a == q \div m IN
         IF a # PiTerms[k]
         THEN IF k % 2 = 1 THEN a < PiTerms[k] ELSE a > PiTerms[k]
         ELSE BelowPi(m, q - a * m, k + 1)

\* density < tier, for density = count / (Math.PI * Math.pow(radius / 1000, 2))
DensityBelow(count, radius, tier) == BelowPi(count * 1000000, tier * radius * radius, 1)

\* competitionLevel of generateBusinessIntelligence; every comparison with a
\* NaN density is false
CompetitionLevel(total, radius) ==
    IF total.nan THEN "SATURATED"
    ELSE IF DensityBelow(total.n, radius, 1) THEN "LOW"
    ELSE IF DensityBelow(total.n, radius, 5) THEN "MODERATE"
    ELSE IF DensityBelow(total.n, radius, 15) THEN "HIGH"
    ELSE "SATURATED"

\* the tail of execute: places and the business-intelligence block
Finish(ctx, total, effectiveRadius, places) ==
    [count |-> [present |-> TRUE, text |-> StringOf(total)],
     places |-> places,
     searchRadius |->
        IF ctx.analysisType # "CUSTOM" THEN RadiusForBi(ctx, effectiveRadius) ELSE NoRadius,
     competitionLevel |->
        IF ctx.analysisType # "CUSTOM"
        THEN CompetitionLevel(total, RadiusForBi(ctx, effectiveRadius))
        ELSE "",
     error |-> ""]

\* a failed listing request that aborts the call, as a failed count request does
PlacesFailureThrows(ctx, total, effectiveRadius, resp) ==
    Thrown("Google Places Insights API request failed")

\* if (!placesResp.ok) console.error(...): proceed without places, keep the count
PlacesFailure(ctx, total, effectiveRadius, resp) ==
    Finish(ctx, total, effectiveRadius, NoPlaceInsights)

InsInit ==
    /\ insCtx \in InsContexts
    /\ insLog = <<>>
    /\ insTotal = Whole(0)
    /\ insRadius = NoRadius
    /\ insPc = "start"
    /\ insOut = NoInsResult

\* up to the first fetch
StartInsights ==
    /\ insPc = "start"
    /\ IF ~insCtx.apiKey
       THEN /\ insPc' = "thrown"
            /\ insOut' = Thrown("Google API key not found")
            /\ UNCHANGED insLog
       ELSE /\ insPc' = "count"
            /\ insLog' = <<Request("INSIGHT_COUNT", insCtx.radius)>>
            /\ UNCHANGED insOut
    /\ UNCHANGED <<insCtx, insTotal, insRadius, notInsVars>>

\* from the end of the count fetch to the second fetch, the return or the throw
CountResponds(resp) ==
    /\ insPc = "count"
    /\ resp \in CountResponses
    /\ IF resp.kind = "rejected" \/ ~IsOk(resp) \/ ~resp.json
       THEN /\ insPc' = "thrown"
            /\ insOut' = Thrown(IF resp.kind = "rejected" THEN "fetch failed"
                                ELSE IF ~IsOk(resp)
                                     THEN "Google Places Insights API request failed"
                                     ELSE "invalid json")
            /\ insLog' = Append(insLog, Ended("INSIGHT_COUNT", resp))
            /\ UNCHANGED <<insTotal, insRadius>>
       ELSE LET total == TotalCount(resp.count) IN
            /\ insTotal' = total
            /\ IF WantsPlaces(insCtx)
               THEN /\ insRadius' = EffectiveRadius(insCtx, total)
                    /\ insLog' = insLog \o <<Ended("INSIGHT_COUNT", resp),
                                             Request("INSIGHT_PLACES", insRadius')>>
                    /\ insPc' = "places"
                    /\ UNCHANGED insOut
               ELSE /\ insRadius' = insCtx.radius
                    /\ insLog' = Append(insLog, Ended("INSIGHT_COUNT", resp))
                    /\ insPc' = "returned"
                    /\ insOut' = Finish(insCtx, total, insRadius', NoPlaceInsights)
    /\ UNCHANGED <<insCtx, notInsVars>>

\* from the end of the listing fetch to the return or the throw
PlacesResponds(resp) ==
    /\ insPc = "places"
    /\ resp \in PlacesResponses
    /\ insLog' = Append(insLog, Ended("INSIGHT_PLACES", resp))
    /\ IF resp.kind = "rejected" \/ (IsOk(resp) /\ ~resp.json)
       THEN /\ insPc' = "thrown"
            /\ insOut' = Thrown(IF resp.kind = "rejected" THEN "fetch failed"
                                ELSE "invalid json")
       ELSE IF ~IsOk(resp)
       THEN /\ insOut' = PlacesFailure(insCtx, insTotal, insRadius, resp)
            /\ insPc' = IF insOut'.error = "" THEN "returned" ELSE "thrown"
       ELSE /\ insPc' = "returned"
            /\ insOut' = Finish(insCtx, insTotal, insRadius, resp.placeInsights)
    /\ UNCHANGED <<insCtx, insTotal, insRadius, notInsVars>>

InsNext ==
    \/ StartInsights
    \/ \E resp \in CountResponses : CountResponds(resp)
    \/ \E resp \in PlacesResponses : PlacesResponds(resp)

(***************************************************************************)
(* PlacesService: the four domain query operations and                     *)
(* formatAgentResponseDirect, which extracts analysis and map data from    *)
(* the agent's response.                                                   *)
(***************************************************************************)
\* GeoJSON features by where their coordinates come from: the agent's text,
\* a tool result; coordinates are in units of 0.0001 degree
AgentFeature(i) == [lon |-> i, lat |-> i, source |-> "agent"]
ToolFeature(i) == [lon |-> 100 + i, lat |-> 100 + i, source |-> "tool"]

\* a value that can sit in a mapData/map field or be a tool result: absent
\* (undefined), a FeatureCollection, or another truthy value (a string, an
\* object without features)
NoMap == [kind |-> "absent", features |-> <<>>]
NullMap == [kind |-> "null", features |-> <<>>]
Collection(features) == [kind |-> "fc", features |-> features]
OtherValue == [kind |-> "other", features |-> <<>>]
IsTruthyMap(m) == m.kind \in {"fc", "other"}

\* what a pattern captures and how JSON.parse ends on it:
\*   none    - the pattern does not match
\*   empty   - the capture is ''
\*   invalid - JSON.parse throws
\*   falsy   - a valid JSON text of a falsy value (0, null, false, "")
\*   fc      - an object {type: 'FeatureCollection', features: [...]}
\*   object  - another object, with or without analysis, mapData and map fields
NoCapture ==
    [kind |-> "none", features |-> <<>>, hasAnalysis |-> FALSE, mapData |-> NoMap, map |-> NoMap]
EmptyCapture == [NoCapture EXCEPT !.kind = "empty"]
InvalidJson == [NoCapture EXCEPT !.kind = "invalid"]
FalsyJson == [NoCapture EXCEPT !.kind = "falsy"]
BareCollection(features) == [NoCapture EXCEPT !.kind = "fc", !.features = features]
JsonObject(hasAnalysis, mapData, map) ==
    [kind |-> "object", features |-> <<>>, hasAnalysis |-> hasAnalysis,
     mapData |-> mapData, map |-> map]

AgentCollections == {<<>>, <<AgentFeature(1)>>, <<AgentFeature(1), AgentFeature(2)>>}
FenceContents ==
    {EmptyCapture, InvalidJson, FalsyJson}
        \cup {BareCollection(fs) : fs \in AgentCollections}
        \cup {JsonObject(TRUE, Collection(<<AgentFeature(1)>>), NoMap),
              JsonObject(FALSE, Collection(<<>>), NoMap),
              JsonObject(FALSE, NoMap, Collection(<<AgentFeature(2)>>)),
              JsonObject(TRUE, OtherValue, NoMap),
              JsonObject(TRUE, NoMap, NoMap),
              JsonObject(FALSE, NoMap, NoMap)}
LaterContents == {NoCapture, InvalidJson, JsonObject(TRUE, Collection(<<AgentFeature(1)>>), NoMap)}
InlineContents ==
    {NoCapture, InvalidJson, BareCollection(<<AgentFeature(1)>>),
     JsonObject(TRUE, Collection(<<AgentFeature(1)>>), NoMap)}

\* phrases of the text that the location patterns or the table can match
MentionSets ==
    {{}, {"12 Main St"}, {"Pine Street"}, {"Financial District"},
     {"12 Main St", "Financial District"}}

\* a response text by the parts the patterns can see: the first fenced block
\* (tagged json or not) and its content, the first json-tagged block after a
\* first untagged one, an object written inline, and the phrases mentioned
NoFence == [tag |-> "none", content |-> NoCapture]
Fences == {NoFence} \cup [tag : {"json", "generic"}, content : FenceContents]
Texts ==
    {t \in [firstFence : Fences, laterJsonFence : LaterContents,
            inline : InlineContents, mentions : MentionSets] :
        t.laterJsonFence # NoCapture => t.firstFence.tag = "generic"}
PlainText == [firstFence |-> NoFence, laterJsonFence |-> NoCapture,
              inline |-> NoCapture, mentions |-> {}]

\* /```json\s*([\s\S]*?)\s*```/g : the first json-tagged block
JsonFencePattern(t) ==
    IF t.firstFence.tag = "json" THEN t.firstFence.content ELSE t.laterJsonFence

\* /```\s*([\s\S]*?)\s*```/g : the first block; on a json-tagged block the
\* capture starts with the tag and does not parse
GenericFencePattern(t) ==
    IF t.firstFence.tag = "generic" THEN t.firstFence.content
    ELSE IF t.firstFence.tag = "json" THEN InvalidJson
    ELSE NoCapture

\* /\{[\s\S]*\}/g has no capture group: match[1] is undefined
RawObjectPattern(t) == NoCapture

jsonPatterns(t) == <<JsonFencePattern(t), GenericFencePattern(t), RawObjectPattern(t)>>

\* match && match[1], then JSON.parse(match[1]) without a throw
Parses(capture) == capture.kind \in {"falsy", "fc", "object"}

\* jsonContent after the loop over the patterns: the first capture that parses
JsonContent(t) ==
    LET ps == jsonPatterns(t)
        hits == {i \in 1..Len(ps) : Parses(ps[i])}
    IN  IF hits = {} THEN NoCapture
        ELSE ps[CHOOSE i \in hits : \A j \in hits : i <= j]

\* if (jsonContent)
IsTruthyJson(j) == j.kind \in {"fc", "object"}

\* the analysis of an outcome
EmptyAnalysis == [kind |-> "empty", of |-> NoCapture, message |-> ""]
AnalysisField(j) == [kind |-> "analysisField", of |-> j, message |-> ""]
WholeObject(j) == [kind |-> "wholeObject", of |-> j, message |-> ""]
SummaryOfText == [kind |-> "summary", of |-> NoCapture, message |-> ""]
ErrorAnalysis(message) == [kind |-> "error", of |-> NoCapture, message |-> message]

\* jsonContent.analysis || jsonContent
AnalysisOf(j) == IF j.hasAnalysis THEN AnalysisField(j) ELSE WholeObject(j)

\* jsonContent.mapData || jsonContent.map || null
MapDataOf(j) ==
    IF IsTruthyMap(j.mapData) THEN j.mapData
    ELSE IF IsTruthyMap(j.map) THEN j.map
    ELSE NullMap

\* agentResponse.toolResults: undefined, a truthy value that is not iterable,
\* or a list; an entry is null, or carries a result that is a provider payload
\* without type, features and mapData, a FeatureCollection, or {mapData: ...}
MaxTools == 2
NullEntry == [kind |-> "null", map |-> NoMap]
PayloadEntry == [kind |-> "payload", map |-> NoMap]
CollectionEntry(features) == [kind |-> "fc", map |-> Collection(features)]
WrappedEntry(m) == [kind |-> "wrapped", map |-> m]
ToolEntries ==
    {NullEntry, PayloadEntry, CollectionEntry(<<>>), CollectionEntry(<<ToolFeature(1)>>),
     WrappedEntry(Collection(<<ToolFeature(2)>>))}
NoToolResults == [kind |-> "absent", entries |-> <<>>]
NotAList == [kind |-> "notList", entries |-> <<>>]
ToolResultValues ==
    {NoToolResults, NotAList}
        \cup {[kind |-> "list", entries |-> es] :
                es \in UNION {[1..n -> ToolEntries] : n \in 0..MaxTools}}

\* a text field of the response: undefined, '' or a non-empty string
MissingField == [kind |-> "missing", body |-> PlainText]
EmptyField == [kind |-> "empty", body |-> PlainText]
TextField(t) == [kind |-> "text", body |-> t]

\* what generate resolves with; an undefined response reads as all fields missing
AgentResponses ==
    [text : {TextField(t) : t \in Texts}, content : {MissingField},
     toolResults : ToolResultValues]
      \cup [text : {MissingField, EmptyField},
            content : {MissingField, EmptyField, TextField(PlainText)},
            toolResults : ToolResultValues]

\* the text of an outcome: the response's own text, a fixed default or an
\* error line
DefaultText == [kind |-> "default", body |-> PlainText, message |-> "Analysis completed"]
OwnText(field) == [kind |-> field.kind, body |-> field.body, message |-> ""]

\* agentResponse?.text || agentResponse?.content || 'Analysis completed'
ResponseText(resp) ==
    IF resp.text.kind = "text" THEN OwnText(resp.text)
    ELSE IF resp.content.kind = "text" THEN OwnText(resp.content)
    ELSE DefaultText

\* the table of generateBasicMapDataFromText, in order
majorLocations ==
    << [name |-> "Embarcadero Center", lat |-> 377955, lon |-> -1223967],
       [name |-> "Pine Street", lat |-> 377920, lon |-> -1223984],
       [name |-> "Commercial Street", lat |-> 377942, lon |-> -1224037],
       [name |-> "Front Street", lat |-> 377925, lon |-> -1223989],
       [name |-> "Davis Street", lat |-> 377951, lon |-> -1223981],
       [name |-> "Financial District", lat |-> 377949, lon |-> -1224039] >>

\* the phrases the two location patterns match: a number, a name and a street
\* suffix, or names followed by Center, Street, Avenue, ...
MatchesLocationPattern(phrase) ==
    phrase \in {"12 Main St", "Embarcadero Center", "Pine Street", "Commercial Street",
                "Front Street", "Davis Street"}
LocationMatches(t) == {p \in t.mentions : MatchesLocationPattern(p)}

RECURSIVE KnownLocationFeatures(_, _)
KnownLocationFeatures(t, i) ==
    IF i > Len(majorLocations) THEN <<>>
    ELSE (IF majorLocations[i].name \in t.mentions
          THEN <<[lon |-> majorLocations[i].lon, lat |-> majorLocations[i].lat,
                  source |-> "text-analysis"]>>
          ELSE <<>>) \o KnownLocationFeatures(t, i + 1)

\* generateBasicMapDataFromText: a feature for every table name the text
\* mentions; bounds, center and metadata are functions of the features and
\* are left out
generateBasicMapDataFromText(t) ==
    IF KnownLocationFeatures(t, 1) # <<>> THEN Collection(KnownLocationFeatures(t, 1))
    ELSE NullMap

\* the loop over toolResults from entry i on: the first entry whose result has
\* type FeatureCollection, features or mapData gives result.mapData || result;
\* a null entry throws
RECURSIVE ScanToolResults(_, _)
ScanToolResults(entries, i) ==
    IF i > Len(entries) THEN [threw |-> FALSE, mapData |-> NullMap]
    ELSE IF entries[i].kind = "null" THEN [threw |-> TRUE, mapData |-> NullMap]
    ELSE IF entries[i].kind \in {"fc", "wrapped"} /\ IsTruthyMap(entries[i].map)
         THEN [threw |-> FALSE, mapData |-> entries[i].map]
    ELSE ScanToolResults(entries, i + 1)

\* if (jsonContent) { analysis = ...; mapData = ... }
JsonAnalysis(t) ==
    IF IsTruthyJson(JsonContent(t)) THEN AnalysisOf(JsonContent(t)) ELSE EmptyAnalysis
JsonMapData(t) ==
    IF IsTruthyJson(JsonContent(t)) THEN MapDataOf(JsonContent(t)) ELSE NullMap

\* if (!mapData && agentResponse?.toolResults): the loop, which throws on a
\* value that is not iterable
ScansTools(resp, t) == ~IsTruthyMap(JsonMapData(t)) /\ resp.toolResults.kind # "absent"
ToolScan(resp) ==
    IF resp.toolResults.kind = "notList" THEN [threw |-> TRUE, mapData |-> NullMap]
    ELSE ScanToolResults(resp.toolResults.entries, 1)

\* if (!mapData), reached when nothing was thrown: the location patterns and
\* generateBasicMapDataFromText
ScansText(resp, t) ==
    /\ ~IsTruthyMap(JsonMapData(t))
    /\ ScansTools(resp, t) => ~ToolScan(resp).threw /\ ~IsTruthyMap(ToolScan(resp).mapData)
TextMapData(t) ==
    IF LocationMatches(t) # {} THEN generateBasicMapDataFromText(t) ELSE NullMap

\* the try block, as [threw, analysis, mapData, stages]; stages lists the
\* sources of map data that were consulted, in order
TryExtract(resp, t) ==
    [threw |-> ScansTools(resp, t) /\ ToolScan(resp).threw,
     analysis |-> JsonAnalysis(t),
     mapData |->
        IF IsTruthyMap(JsonMapData(t)) THEN JsonMapData(t)
        ELSE IF ScansTools(resp, t) /\ IsTruthyMap(ToolScan(resp).mapData)
             THEN ToolScan(resp).mapData
        ELSE IF ScansText(resp, t) THEN TextMapData(t)
        ELSE NullMap,
     stages |->
        <<"json">>
            \o (IF ScansTools(resp, t) THEN <<"toolResults">> ELSE <<>>)
            \o (IF ScansText(resp, t) THEN <<"textLocations">> ELSE <<>>)]

\* a catch block that lets the exception out
CatchRaises(s) == s

\* catch (e) { analysis = { summary: responseText } }
CatchExtract(s) == [s EXCEPT !.threw = FALSE, !.analysis = SummaryOfText]

\* the four operations by the agentType they pass on
AgentTypes == {"urban-planning", "real-estate", "energy-utilities", "retail"}

\* the message of the Error thrown when mastra.getAgent returns nothing
NotAvailable(agentType) ==
    CASE agentType = "urban-planning" -> "Urban Planning Agent not available"
      [] agentType = "real-estate" -> "Real Estate Agent not available"
      [] agentType = "energy-utilities" -> "Energy/Utilities Agent not available"
      [] agentType = "retail" -> "Retail Agent not available"

toolMappings ==
    [a \in AgentTypes |->
        CASE a = "urban-planning" ->
                <<"getFootTrafficSummaryTool", "getWeatherTool", "searchEventsTool",
                  "getAggregatedMetricTool", "searchPoiTool", "formatMapDataTool">>
          [] a = "real-estate" ->
                <<"getFootTrafficSummaryTool", "getGooglePlacesInsightsTool",
                  "getAggregatedMetricTool", "searchPoiTool", "getGooglePlaceDetailsTool",
                  "formatMapDataTool">>
          [] a = "energy-utilities" ->
                <<"getWeatherTool", "getAggregatedMetricTool", "searchPoiTool",
                  "getIpLocationTool", "formatMapDataTool">>
          [] a = "retail" ->
                <<"getFootTrafficSummaryTool", "getGooglePlacesInsightsTool",
                  "getAggregatedMetricTool", "searchPoiTool", "getGooglePlaceDetailsTool",
                  "searchEventsTool", "formatMapDataTool">>]

\* toolMappings[agentType] || []
getToolsForAgent(agentType) ==
    IF agentType \in DOMAIN toolMappings THEN toolMappings[agentType] ELSE <<>>

\* a UnifiedChatResponseDto without executionTime, confidence and timestamp
ChatResponse(type, text, analysis, mapData, agentType, toolsUsed, success) ==
    [type |-> type, text |-> text, analysis |-> analysis, mapData |-> mapData,
     agentsUsed |-> <<agentType \o "Agent">>, toolsUsed |-> toolsUsed,
     intent |-> agentType, success |-> success]
NoChatResponse ==
    [type |-> "none", text |-> DefaultText, analysis |-> EmptyAnalysis, mapData |-> NullMap,
     agentsUsed |-> <<>>, toolsUsed |-> <<>>, intent |-> "", success |-> FALSE]

\* an error response that reports success
ErrorAsSuccess(message, agentType) ==
    ChatResponse("text",
                 [kind |-> "error", body |-> PlainText,
                  message |-> "Error processing " \o agentType \o " query: " \o message],
                 ErrorAnalysis(message), NullMap, agentType, <<>>, TRUE)

formatErrorResponse(message, agentType) ==
    ChatResponse("text",
                 [kind |-> "error", body |-> PlainText,
                  message |-> "Error processing " \o agentType \o " query: " \o message],
                 ErrorAnalysis(message), NullMap, agentType, <<>>, FALSE)

\* formatAgentResponseDirect: [raised, stages, response]; response is the value
\* returned when nothing is raised
formatAgentResponseDirect(resp, agentType) ==
    LET responseText == ResponseText(resp)
        tried == TryExtract(resp, responseText.body)
        s == IF tried.threw THEN CatchExtract(tried) ELSE tried
    IN  [called |-> TRUE, raised |-> s.threw, stages |-> s.stages,
         response |-> ChatResponse("analysis", responseText, s.analysis, s.mapData,
                                   agentType, getToolsForAgent(agentType), TRUE)]
NotFormatted == [called |-> FALSE, raised |-> FALSE, stages |-> <<>>, response |-> NoChatResponse]

\* how generate ended
ErrorMessages == {"m1", ""}
NotGenerated ==
    [kind |-> "none", message |-> "",
     response |-> [text |-> MissingField, content |-> MissingField, toolResults |-> NoToolResults]]
Generated(resp) == [NotGenerated EXCEPT !.kind = "response", !.response = resp]
GenerateFailed(message) == [NotGenerated EXCEPT !.kind = "error", !.message = message]

SvcInit ==
    /\ svcOp \in AgentTypes
    /\ svcPc = "start"
    /\ svcIn = NotGenerated
    /\ svcFormat = NotFormatted
    /\ svcOut = NoChatResponse

\* process<Domain>Query up to the call of generate: the agent lookup, and the
\* catch when there is no agent
StartQuery(found) ==
    /\ svcPc = "start"
    /\ IF found
       THEN svcPc' = "generating" /\ UNCHANGED svcOut
       ELSE /\ svcPc' = "returned"
            /\ svcOut' = formatErrorResponse(NotAvailable(svcOp), svcOp)
    /\ UNCHANGED <<svcOp, svcIn, svcFormat, notSvcVars>>

\* generate resolves: formatAgentResponseDirect, inside the operation's try
GenerateReturns ==
    /\ svcPc = "generating"
    /\ \E resp \in AgentResponses :
          /\ svcIn' = Generated(resp)
          /\ svcFormat' = formatAgentResponseDirect(resp, svcOp)
    /\ svcOut' = IF svcFormat'.raised
                 THEN formatErrorResponse("TypeError", svcOp)
                 ELSE svcFormat'.response
    /\ svcPc' = "returned"
    /\ UNCHANGED <<svcOp, notSvcVars>>

\* generate rejects with an Error: the operation's catch
GenerateThrows(message) ==
    /\ svcPc = "generating"
    /\ svcIn' = GenerateFailed(message)
    /\ svcOut' = formatErrorResponse(message, svcOp)
    /\ svcPc' = "returned"
    /\ UNCHANGED <<svcOp, svcFormat, notSvcVars>>

SvcNext ==
    \/ \E found \in BOOLEAN : StartQuery(found)
    \/ GenerateReturns
    \/ \E message \in ErrorMessages : GenerateThrows(message)

(***************************************************************************)
(* PlacesService.processUnifiedChat                                        *)
(***************************************************************************)
ResponsePreferences == {"auto", "text", "geojson", "analysis"}
QueryTypes == {"MAP_DATA_ONLY", "ANALYTICS", "COMPREHENSIVE", "GENERAL"}

\* a request by what the routing looks at: whether UnifiedChatSchema.parse
\* accepts it, its responsePreference, which keyword lists its message hits
\* and the type queryRouter.analyzeQuery gives it
UnifiedRequests ==
    [valid : BOOLEAN, responsePreference : ResponsePreferences,
     keywords : SUBSET {"map", "analysis"}, queryType : QueryTypes]

\* determineAutoResponseType(analysis, message)
determineAutoResponseType(queryType, keywords) ==
    IF "map" \in keywords THEN "geojson"
    ELSE IF "analysis" \in keywords THEN "analysis"
    ELSE CASE queryType = "MAP_DATA_ONLY" -> "geojson"
           [] queryType \in {"ANALYTICS", "COMPREHENSIVE"} -> "analysis"
           [] OTHER -> "text"

\* mapPreferenceToType(preference)
mapPreferenceToType(preference) ==
    CASE preference = "geojson" -> "geojson"
      [] preference = "analysis" -> "analysis"
      [] OTHER -> "text"

\* responseType of processUnifiedChat
ResponseTypeOf(req) ==
    IF req.responsePreference = "auto"
    THEN determineAutoResponseType(req.queryType, req.keywords)
    ELSE mapPreferenceToType(req.responsePreference)

\* what the agent's generate does when the unified route runs the urban
\* planning operation: it rejects, or resolves with a plain text, a text with
\* a fenced object, or no text, and with toolResults absent or not iterable
FencedText ==
    [PlainText EXCEPT !.firstFence =
        [tag |-> "json",
         content |-> JsonObject(TRUE, Collection(<<AgentFeature(1)>>), NoMap)]]
UnifiedGenerations ==
    {GenerateFailed(message) : message \in ErrorMessages}
        \cup {Generated(resp) :
                resp \in [text : {TextField(PlainText), TextField(FencedText), MissingField},
                          content : {MissingField},
                          toolResults : {NoToolResults, NotAList}]}

\* processUrbanPlanningQuery as a function of the agent lookup and of how
\* generate ended
processUrbanPlanningQuery(found, gen) ==
    IF ~found
    THEN formatErrorResponse(NotAvailable("urban-planning"), "urban-planning")
    ELSE IF gen.kind = "error" THEN formatErrorResponse(gen.message, "urban-planning")
    ELSE LET formatted == formatAgentResponseDirect(gen.response, "urban-planning") IN
         IF formatted.raised THEN formatErrorResponse("TypeError", "urban-planning")
         ELSE formatted.response

\* the handler a request was delegated to and how it ended
NoHandler == [route |-> "", kind |-> "none", result |-> NoChatResponse]

\* the unified outcome; data is the handler's data (of) or an error line
NoUnifiedOut ==
    [type |-> "", data |-> [of |-> NoChatResponse, message |-> ""],
     agentsUsed |-> <<>>, toolsUsed |-> <<>>, success |-> FALSE]

\* return {type: responseType, data: responseData, metadata, success: true}
UnifiedSuccess(type, result, agentsUsed, toolsUsed) ==
    [type |-> type, data |-> [of |-> result, message |-> ""],
     agentsUsed |-> agentsUsed, toolsUsed |-> toolsUsed, success |-> TRUE]

\* catch (error): a text outcome with success: false
UnifiedError(message) ==
    [type |-> "text",
     data |-> [of |-> NoChatResponse,
               message |-> "I encountered an error processing your request: " \o message],
     agentsUsed |-> <<>>, toolsUsed |-> <<>>, success |-> FALSE]

UniInit ==
    /\ uniReq \in UnifiedRequests
    /\ uniPc = "start"
    /\ uniHandler = NoHandler
    /\ uniOut = NoUnifiedOut

\* validation and routing, up to the await of the handler
RouteUnifiedChat ==
    /\ uniPc = "start"
    /\ IF ~uniReq.valid
       THEN /\ uniPc' = "returned"
            /\ uniOut' = UnifiedError("validation")
            /\ UNCHANGED uniHandler
       ELSE /\ uniPc' = "awaiting"
            /\ uniHandler' = [NoHandler EXCEPT !.route = ResponseTypeOf(uniReq)]
            /\ UNCHANGED uniOut
    /\ UNCHANGED <<uniReq, notUniVars>>

\* case ResponseType.ANALYSIS: processUrbanPlanningQuery returns
AnalysisReturns ==
    /\ uniPc = "awaiting"
    /\ uniHandler.route = "analysis"
    /\ \E found \in BOOLEAN, gen \in UnifiedGenerations :
        LET analysisResult == processUrbanPlanningQuery(found, gen) IN
        /\ uniHandler' = [uniHandler EXCEPT !.kind = "returned", !.result = analysisResult]
        /\ uniOut' = UnifiedSuccess("analysis", analysisResult, <<"urbanPlanningAgent">>,
                                    getToolsForAgent("urban-planning"))
    /\ uniPc' = "returned"
    /\ UNCHANGED <<uniReq, notUniVars>>

\* case GEOJSON, case TEXT: the service awaited resolves or rejects
ServiceSettles(resolves) ==
    /\ uniPc = "awaiting"
    /\ uniHandler.route \in {"geojson", "text"}
    /\ IF resolves
       THEN /\ uniHandler' = [uniHandler EXCEPT !.kind = "returned"]
            /\ uniOut' =
                IF uniHandler.route = "geojson"
                THEN UnifiedSuccess("geojson", NoChatResponse, <<"mapDataAgent">>,
                                    <<"tomtomFuzzySearchTool", "formatMapDataTool">>)
                ELSE UnifiedSuccess("text", NoChatResponse, <<"orchestratorAgent">>,
                                    <<"planTool", "executePlanTool", "summarizeTool">>)
       ELSE /\ uniHandler' = [uniHandler EXCEPT !.kind = "threw"]
            /\ uniOut' = UnifiedError("m1")
    /\ uniPc' = "returned"
    /\ UNCHANGED <<uniReq, notUniVars>>

UniNext ==
    \/ RouteUnifiedChat
    \/ AnalysisReturns
    \/ \E resolves \in BOOLEAN : ServiceSettles(resolves)

(***************************************************************************)
(* Specifications: one per component                                       *)
(***************************************************************************)
\* the variables of a component that is not running
FmtIdle == rawData = [k \in RawKeys |-> Absent] /\ fmtPc = "idle" /\ fmtOut = NoResult
PlanIdle == planLen = 0 /\ calls = <<>> /\ results = EmptyResults /\ planPc = "idle"
RetryIdle ==
    /\ maxRetries = 0 /\ baseDelay = 0 /\ attempt = 0 /\ seen = <<>> /\ waits = <<>>
    /\ lastError = NoError /\ retryPc = "idle"
    /\ retryOut = [response |-> NoResponse, error |-> NoError]

InsIdle ==
    /\ insCtx = [apiKey |-> FALSE, insights |-> {}, radius |-> NoRadius,
                 analysisType |-> "CUSTOM"]
    /\ insLog = <<>> /\ insTotal = Whole(0) /\ insRadius = NoRadius
    /\ insPc = "idle" /\ insOut = NoInsResult

SvcIdle ==
    /\ svcOp = "" /\ svcPc = "idle" /\ svcIn = NotGenerated
    /\ svcFormat = NotFormatted /\ svcOut = NoChatResponse

BatchIdle == batches = <<>> /\ store = <<>>
UniIdle ==
    /\ uniReq = [valid |-> FALSE, responsePreference |-> "auto", keywords |-> {},
                 queryType |-> "GENERAL"]
    /\ uniPc = "idle" /\ uniHandler = NoHandler /\ uniOut = NoUnifiedOut

InitFormat == FmtInit /\ PlanIdle /\ RetryIdle /\ InsIdle /\ SvcIdle /\ BatchIdle /\ UniIdle
InitPlan == PlanInit /\ FmtIdle /\ RetryIdle /\ InsIdle /\ SvcIdle /\ BatchIdle /\ UniIdle
InitRetry == RetryInit /\ FmtIdle /\ PlanIdle /\ InsIdle /\ SvcIdle /\ BatchIdle /\ UniIdle
InitInsights == InsInit /\ FmtIdle /\ PlanIdle /\ RetryIdle /\ SvcIdle /\ BatchIdle /\ UniIdle
InitService == SvcInit /\ FmtIdle /\ PlanIdle /\ RetryIdle /\ InsIdle /\ BatchIdle /\ UniIdle

SpecFormat == InitFormat /\ [][FmtNext]_vars
SpecPlan == InitPlan /\ [][PlanNext]_vars
SpecRetry == InitRetry /\ [][RetryNext]_vars
\* fetch settles (it resolves or rejects) and the event loop then resumes the
\* function, so an iteration that can run does run
SpecRetryFair == SpecRetry /\ WF_vars(RetryNext)
SpecInsights == InitInsights /\ [][InsNext]_vars
SpecService == InitService /\ [][SvcNext]_vars
InitBatch ==
    BatchInit /\ FmtIdle /\ PlanIdle /\ RetryIdle /\ InsIdle /\ SvcIdle /\ UniIdle
SpecBatch == InitBatch /\ [][BatchNext]_vars
InitUnified ==
    UniInit /\ FmtIdle /\ PlanIdle /\ RetryIdle /\ InsIdle /\ SvcIdle /\ BatchIdle
SpecUnified == InitUnified /\ [][UniNext]_vars

(***************************************************************************)
(* Properties of formatMapDataTool (checked under SpecFormat)              *)
(***************************************************************************)
ProviderOfSource(source) ==
    CASE source = "TomTom Fuzzy Search" -> "tomtom"
      [] source = "Google Place Details" -> "details"
      [] source = "PredictHQ Events" -> "events"
      [] source = "IP Location" -> "ip"
      [] source = "TomTom POI Search" -> "poi"
      [] source = "TomTom Place Details" -> "placeById"
      [] OTHER -> "insights"

FeatureSet == {fmtOut.features[i] : i \in 1..Len(fmtOut.features)}

\* the records of the input mapping, under whatever key
InputRecords(p) ==
    UNION {{rawData[k].recs[i] : i \in 1..Len(rawData[k].recs)} :
           k \in {CamelKey(p), KebabKey(p)}}

AtOrigin(x) == x.lon = Num(0) /\ x.lat = Num(0)

HasFiniteCoordinates(f) ==
    f.type = "Point" /\ IsFiniteNumber(f.lon) /\ IsFiniteNumber(f.lat)

\* a <= b for JavaScript numbers (false when either is NaN)
NumLeq(a, b) == a.tag # "NaN" /\ b.tag # "NaN" /\ ~NumLess(b, a)

\* C1: the coordinates of every emitted Feature are the coordinates of a record
\* of the provider payload its source names; the insights payload (place ids)
\* contributes no feature; a Feature at (0,0) comes from a record that reports
\* (0,0).
C1_NoFabricatedCoordinates ==
    fmtPc = "done" =>
        /\ \A f \in FeatureSet :
              /\ ProviderOfSource(f.source) # "insights"
              /\ \E r \in InputRecords(ProviderOfSource(f.source)) :
                    r.lon = f.lon /\ r.lat = f.lat
        /\ (\A p \in Providers \ {"insights"} : InputRecords(p) = {})
              => fmtOut.features = <<>>
        /\ \A f \in FeatureSet :
              AtOrigin(f) => \E p \in Providers : \E r \in InputRecords(p) : r.pos /\ AtOrigin(r)

\* an insights payload with place ids beside a provider record at (0,0): the
\* only feature is the one the record reports
C1_Witness ==
    /\ fmtPc = "done"
    /\ Len(Lookup(rawData, "insights").recs) >= 1
    /\ Len(fmtOut.features) = 1
    /\ AtOrigin(fmtOut.features[1])

\* C2: every emitted Feature is a Point whose longitude and latitude are both
\* finite numbers.
C2_FeaturesHaveFiniteCoordinates ==
    fmtPc = "done" => \A f \in FeatureSet : HasFiniteCoordinates(f)

\* C3: with a non-empty feature list, north >= south, east >= west and the
\* center lies within the bounds.
C3_CenterWithinBounds ==
    (fmtPc = "done" /\ Len(fmtOut.features) > 0) =>
        /\ ~fmtOut.bounds.isNull
        /\ ~fmtOut.center.isNull
        /\ NumLeq(fmtOut.bounds.south, fmtOut.bounds.north)
        /\ NumLeq(fmtOut.bounds.west, fmtOut.bounds.east)
        /\ NumLeq(fmtOut.bounds.south, fmtOut.center.lat)
        /\ NumLeq(fmtOut.center.lat, fmtOut.bounds.north)
        /\ NumLeq(fmtOut.bounds.west, fmtOut.center.lon)
        /\ NumLeq(fmtOut.center.lon, fmtOut.bounds.east)

\* C4: bounds and center are both present exactly when some point feature has
\* finite coordinates, and both null otherwise.
C4_BoundsAndCenterTogether ==
    fmtPc = "done" =>
        /\ fmtOut.bounds.isNull <=> fmtOut.center.isNull
        /\ ~fmtOut.bounds.isNull <=> (\E f \in FeatureSet : HasFiniteCoordinates(f))

\* an entry the dispatcher stores for a tool that produced no payload:
\* {error: ...} (failure, recursion rejection) or {} (missing implementation)
IsFailureEntry(pl) == pl.kind \in {"error", "empty"}

\* the mapping without its failure entries
WithoutFailures(raw) ==
    [k \in DOMAIN raw |-> IF IsFailureEntry(raw[k]) THEN Absent ELSE raw[k]]

\* the keys of a dispatcher's result mapping are canonical ids
IsDispatcherMapping(raw) == \A k \in CamelKeys : raw[k] = Absent

\* C29: when a dispatcher's result mapping is passed as rawData, its failure
\* entries contribute no feature and do not keep the features of the other
\* entries out: the features are those of the mapping without these entries
C29_FailureEntriesAddNothing ==
    (fmtPc = "done" /\ IsDispatcherMapping(rawData)) =>
        /\ fmtOut.features = CollectFeatures(WithoutFailures(rawData))
        /\ (\A k \in RawKeys : rawData[k].kind \in {"absent", "error", "empty"})
              => fmtOut.totalFeatures = 0

\* an {error} entry for the IP lookup next to a search result with one
\* located record: the collection holds the one feature of the search
C29_Witness ==
    /\ fmtPc = "done"
    /\ rawData["get-ip-location"].kind = "error"
    /\ rawData["tomtom-fuzzy-search"] =
            [kind |-> "data", recs |-> <<[pos |-> TRUE, lat |-> Num(1), lon |-> Num(1)]>>]
    /\ fmtOut.features = <<Feature(Num(1), Num(1), "TomTom Fuzzy Search")>>

(***************************************************************************)
(* Properties of executePlanTool (checked under SpecPlan)                  *)
(***************************************************************************)
\* the plan items that reached normalization (all but the skipped ones)
Normalized == {i \in 1..Len(calls) : IsUsableId(calls[i].id)}

\* the id of item i after prefix stripping, and the key its entry is stored under
StrippedId(i) == IdString(StripPrefix(calls[i].id))
KeyOf(i) == CanonicalId(StripPrefix(calls[i].id))

\* the results object right after item i was processed
ResultsAfter(i) == IF i < Len(calls) THEN calls[i + 1].before ELSE results

\* whether a tool implementation was invoked for item i
Invoked(i) == calls[i].outcome.kind # "none"

IsLastWithKey(i) == \A j \in Normalized : j > i => KeyOf(j) # KeyOf(i)

\* the entries under all other keys are as they were before item i
OthersKept(i) ==
    \A k \in DOMAIN calls[i].before :
        k # KeyOf(i) => k \in DOMAIN ResultsAfter(i) /\ ResultsAfter(i)[k] = calls[i].before[k]

ErrorEntryFor(message) ==
    [kind |-> "error",
     val |-> IF message = "" THEN "Unknown error during tool execution" ELSE message]

\* C5: a tool that throws leaves {error: message} under the item's canonical
\* id, keeps the entries of the other ids, and neither stops the loop nor
\* makes execute throw: a returned call has processed every item of the plan.
C5_FailureDoesNotAbortBatch ==
    /\ planPc \in {"running", "returned"}
    /\ planPc = "returned" => Len(calls) = planLen
    /\ \A i \in 1..Len(calls) :
          calls[i].outcome.kind = "throw" =>
              /\ KeyOf(i) \in DOMAIN ResultsAfter(i)
              /\ ResultsAfter(i)[KeyOf(i)] = ErrorEntryFor(calls[i].outcome.val)
              /\ OthersKept(i)

\* a tool returned, the next one threw, a third one returned, and the call returned
C5_Witness ==
    /\ planPc = "returned"
    /\ Len(calls) = 3
    /\ calls[1].outcome.kind = "return"
    /\ calls[2].outcome = [kind |-> "throw", val |-> "m1"]
    /\ calls[3].outcome.kind = "return"
    /\ KeyOf(1) # KeyOf(2)
    /\ KeyOf(3) = KeyOf(2)
    /\ results[KeyOf(1)] = ResultEntry(calls[1].outcome.val)

\* the spellings of the two meta-tools, bare or with the 'functions.' prefix
MetaSpellings ==
    LET bare == {"executePlanTool", "execute-plan", "planTool", "plan-query"} IN
    bare \cup {"functions." \o n : n \in bare}

MetaCanonical(i) ==
    IF StrippedId(i) \in {"executePlanTool", "execute-plan"} THEN "execute-plan" ELSE "plan-query"

\* C6: an item that names a meta-tool is never executed; its canonical id
\* holds the recursion-prevented error; the batch goes on.
C6_MetaToolNeverExecuted ==
    /\ planPc \in {"running", "returned"}
    /\ planPc = "returned" => Len(calls) = planLen
    /\ \A i \in 1..Len(calls) :
          IdString(calls[i].id) \in MetaSpellings =>
              /\ ~Invoked(i)
              /\ MetaCanonical(i) \in DOMAIN ResultsAfter(i)
              /\ ResultsAfter(i)[MetaCanonical(i)] =
                    [kind |-> "error", val |-> "Recursive/plan call prevented during execution"]
              /\ OthersKept(i)

\* 'functions.planTool' was rejected and a later tool ran
C6_Witness ==
    /\ planPc = "returned"
    /\ Len(calls) = 2
    /\ IdString(calls[1].id) = "functions.planTool"
    /\ "plan-query" \in DOMAIN results
    /\ Invoked(2)
    /\ calls[2].outcome.kind = "return"

\* the entry the outcome of item i leaves
EntryOf(i) ==
    CASE calls[i].outcome.kind = "return" -> ResultEntry(calls[i].outcome.val)
      [] calls[i].outcome.kind = "throw" -> ErrorEntryFor(calls[i].outcome.val)
      [] IsMetaTool(KeyOf(i)) -> RecursionEntry
      [] OTHER -> EmptyEntry

AliasSpellings == DOMAIN aliasMap \ {aliasMap[n] : n \in DOMAIN aliasMap}

C8_UnknownIdPassesThrough ==
    /\ planPc \in {"running", "returned"}
    /\ \A i \in Normalized :
          StrippedId(i) \notin DOMAIN aliasMap =>
              /\ ~Invoked(i)
              /\ StrippedId(i) \in DOMAIN ResultsAfter(i)
              /\ ResultsAfter(i)[StrippedId(i)] = EmptyEntry
              /\ \A k \in DOMAIN calls[i].before :
                    k # StrippedId(i) =>
                        k \in DOMAIN ResultsAfter(i) /\ ResultsAfter(i)[k] = calls[i].before[k]

(***************************************************************************)
(* Properties of fetchWithRetry (checked under SpecRetry)                  *)
(***************************************************************************)
Is429(o) == o.kind = "response" /\ o.status = 429
IsOther(o) == o.kind = "response" /\ o.status # 429

\* the waits b*2^0, ..., b*2^(k-1)
DoublingWaits(k) == [i \in 1..k |-> baseDelay * 2^(i - 1)]

\* C9: k <= maxRetries responses 429 followed by a non-429 response: k+1
\* requests, waits b, 2b, ..., b*2^(k-1), and the last response is returned.
C9_ReturnsFirstNon429 ==
    (/\ Len(seen) >= 1
     /\ IsOther(seen[Len(seen)])
     /\ \A i \in 1..(Len(seen) - 1) : Is429(seen[i]))
    => /\ Len(seen) - 1 <= maxRetries
       /\ waits = DoublingWaits(Len(seen) - 1)
       /\ retryPc = "returned"
       /\ retryOut = [response |-> seen[Len(seen)], error |-> NoError]

\* maxRetries = 3: three 429 responses, then a 200: 4 requests, waits b, 2b, 4b
C9_Witness ==
    /\ maxRetries = 3
    /\ Len(seen) = 4
    /\ \A i \in 1..3 : Is429(seen[i])
    /\ seen[4].status = 200
    /\ waits = <<baseDelay, 2 * baseDelay, 4 * baseDelay>>
    /\ retryPc = "returned"
    /\ retryOut.response = seen[4]

\* C10: maxRetries+1 responses, all 429: no further request, maxRetries waits,
\* and the call throws an error that says the rate limit was exceeded and
\* carries the body of the last response.
C10_ThrowsWhenRetriesExhausted ==
    /\ Len(seen) <= maxRetries + 1
    /\ (Len(seen) = maxRetries + 1 /\ \A i \in 1..Len(seen) : Is429(seen[i]))
       => /\ waits = DoublingWaits(maxRetries)
          /\ retryPc = "thrown"
          /\ retryOut.response = NoResponse
          /\ retryOut.error =
                [kind |-> "rateLimitExceeded", attempts |-> maxRetries + 1,
                 body |-> seen[Len(seen)].body]

\* four 429 responses whose last body differs from the first, maxRetries = 3
C10_Witness ==
    /\ maxRetries = 3
    /\ Len(seen) = 4
    /\ \A i \in 1..4 : Is429(seen[i])
    /\ seen[1].body = "b1"
    /\ seen[4].body = "b2"
    /\ Len(waits) = 3
    /\ retryPc = "thrown"
    /\ retryOut.error.body = "b2"

IsNetworkError(o) == o.kind = "networkError"

\* C22 (safety part): for every mix of 429 responses and network failures
\* there are at most maxRetries + 1 requests, every failed attempt n that is
\* not the last one is followed by a wait of baseDelay * 2^n, and a call
\* that ends on a network failure has used all its attempts and raises that
\* failure
RetrySchedule ==
    /\ Len(seen) <= maxRetries + 1
    /\ \A i \in 1..(Len(seen) - 1) : Is429(seen[i]) \/ IsNetworkError(seen[i])
    /\ Len(waits) = (IF retryPc = "fetch" THEN Len(seen) ELSE Len(seen) - 1)
    /\ \A n \in 0..(Len(waits) - 1) : waits[n + 1] = baseDelay * 2^n
    /\ (Len(seen) >= 1 /\ IsNetworkError(seen[Len(seen)]) /\ retryPc # "fetch")
       => /\ Len(seen) = maxRetries + 1
          /\ retryPc = "thrown"
          /\ retryOut = [response |-> NoResponse, error |-> NetworkError]

\* C22: network failures are retried on the attempt counter and backoff
\* schedule of 429 responses, and the call always terminates
C22_NetworkFailuresRetriedAndTerminates ==
    /\ []RetrySchedule
    /\ <>(retryPc \in {"returned", "thrown"})

\* maxRetries = 3: a network failure, a 429, a network failure, and a last
\* network failure that is raised after the waits b, 2b, 4b
C22_Witness ==
    /\ maxRetries = 3
    /\ Len(seen) = 4
    /\ IsNetworkError(seen[1]) /\ Is429(seen[2]) /\ IsNetworkError(seen[3])
    /\ IsNetworkError(seen[4])
    /\ waits = <<baseDelay, 2 * baseDelay, 4 * baseDelay>>
    /\ retryPc = "thrown"
    /\ retryOut.error = NetworkError

(***************************************************************************)
(* Properties of getGooglePlacesInsightsTool (checked under SpecInsights)  *)
(***************************************************************************)
\* positions of the log that hold a request for the given insight
RequestsFor(insight) ==
    {i \in 1..Len(insLog) : insLog[i].ev = "request" /\ insLog[i].insight = insight}

\* the fetch asked at position i ended at position i + 1 with a 2xx response
SucceededAt(i) ==
    /\ i + 1 <= Len(insLog)
    /\ insLog[i + 1].ev = "response"
    /\ insLog[i + 1].insight = insLog[i].insight
    /\ insLog[i + 1].status \in 200..299

\* C11: in every execution the count-only request is the first request issued
\* and has ended before any listing request is issued; a listing request is
\* issued at most once, only when INSIGHT_PLACES was asked for and only after
\* the count request succeeded; a returned result always carries the count.
C11_CountFirstThenAtMostOneListing ==
    /\ insLog # <<>> => insLog[1] = Request("INSIGHT_COUNT", insCtx.radius)
    /\ Cardinality(RequestsFor("INSIGHT_COUNT")) <= 1
    /\ Cardinality(RequestsFor("INSIGHT_PLACES")) <= 1
    /\ \A i \in RequestsFor("INSIGHT_PLACES") :
          /\ "INSIGHT_PLACES" \in insCtx.insights
          /\ i = 3
          /\ SucceededAt(1)
    /\ insPc = "returned" =>
          /\ insOut.count.present
          /\ insOut.count.text = StringOf(insTotal)
          /\ insOut.count.text # <<>>

\* a call that issued both requests and returned
C11_Witness ==
    /\ insPc = "returned"
    /\ RequestsFor("INSIGHT_PLACES") = {3}
    /\ Len(insLog) = 4
    /\ insOut.count.text = <<"4", "0", "0">>

\* the circle radius of the listing request that was issued
ListingRadius == insLog[3].radius

\* n = max(50, floor(r * sqrt(100 / count) * 0.9)), stated without the model's
\* square root: with x = floor(81 r^2 / count), floor(r * 9 / sqrt(count)) is
\* the f with f^2 <= x < (f + 1)^2
IsClampedScaledRadius(n, r, count) ==
    LET x == (81 * r * r) \div count
    IN  IF n > 50 THEN n * n <= x /\ x < (n + 1) * (n + 1)
        ELSE n = 50 /\ x < 51 * 51

\* C12: when a listing is requested for a circle of radius r and the count C
\* exceeds the cap M = 100, the listing radius is max(50, floor(r*sqrt(M/C)*0.9))
\* and never below 50; when C <= M the listing uses r itself; for C = 1000 and
\* r = 5000 the listing radius is 1423.
C12_ListingRadiusScaledToCount ==
    (RequestsFor("INSIGHT_PLACES") # {} /\ insCtx.radius # NoRadius /\ ~insTotal.nan) =>
        /\ insTotal.n > 100 =>
              /\ IsClampedScaledRadius(ListingRadius, insCtx.radius, insTotal.n)
              /\ ListingRadius >= 50
        /\ insTotal.n <= 100 => ListingRadius = insCtx.radius
        /\ (insTotal.n = 1000 /\ insCtx.radius = 5000) => ListingRadius = 1423

\* a listing was issued for r = 5000 after a count of 1000
C12_Witness ==
    /\ RequestsFor("INSIGHT_PLACES") # {}
    /\ insTotal.n = 1000
    /\ insCtx.radius = 5000
    /\ ListingRadius = 1423

\* positions of the log where the listing fetch ended with a non-2xx response
FailedListings ==
    {i \in 1..Len(insLog) :
        /\ insLog[i].ev = "response"
        /\ insLog[i].insight = "INSIGHT_PLACES"
        /\ insLog[i].status \notin 200..299}

\* C13: when the listing request fails with a non-2xx response the call still
\* succeeds: the result keeps the count, has no places list, and no error is
\* raised.
C13_ListingFailureKeepsCount ==
    FailedListings # {} =>
        /\ insPc = "returned"
        /\ insOut.error = ""
        /\ insOut.count = [present |-> TRUE, text |-> StringOf(insTotal)]
        /\ ~insOut.places.present

\* the listing was rate limited after a count of 1000
C13_Witness ==
    /\ \E i \in FailedListings : insLog[i].status = 429
    /\ insPc = "returned"
    /\ insOut.count.text = <<"1", "0", "0", "0">>

\* the responses 429 to requests for the given insight
RateLimited(insight) ==
    {i \in 1..Len(insLog) :
        /\ insLog[i].ev = "response"
        /\ insLog[i].insight = insight
        /\ insLog[i].status = 429}

\* C25: a 429 answer to the count request or to the listing request of the
\* insights tool is retried: the call does not end, by a return or by a
\* throw, before the rate-limited request was sent again
C25_RateLimitIsRetried ==
    \A insight \in {"INSIGHT_COUNT", "INSIGHT_PLACES"} :
        (RateLimited(insight) # {} /\ insPc \in {"returned", "thrown"})
            => Cardinality(RequestsFor(insight)) >= 2

\* C27: whatever the count, the radius of the listing request never exceeds
\* the radius the caller supplied
C27_ListingRadiusWithinSupplied ==
    (RequestsFor("INSIGHT_PLACES") # {} /\ insCtx.radius # NoRadius)
        => ListingRadius <= insCtx.radius

\* the radius of the circle of the count request
CountRadius == insLog[1].radius

\* C28: with an analysis mode, the competition tier (LOW below 1 business per
\* km2, MODERATE below 5, HIGH below 15, else SATURATED) is that of the count
\* over the area of the circle it was counted in, also when the listing ran
\* on a reduced radius, and the reported searchRadius is that circle's radius
C28_DensityOverCountedArea ==
    (insPc = "returned" /\ insCtx.analysisType # "CUSTOM" /\ insCtx.radius # NoRadius
        /\ ~insTotal.nan)
    => /\ insOut.searchRadius = CountRadius
       /\ insOut.competitionLevel = CompetitionLevel(insTotal, CountRadius)
       /\ (insTotal.n = 1000 /\ CountRadius = 5000) => insOut.competitionLevel = "HIGH"
       /\ (insTotal.n = 400 /\ CountRadius = 5000) => insOut.competitionLevel = "HIGH"
       /\ (insTotal.n = 100 /\ CountRadius = 5000) => insOut.competitionLevel = "MODERATE"
       /\ (insTotal.n = 0) => insOut.competitionLevel = "LOW"
       /\ (insTotal.n = 100 /\ CountRadius = 1000) => insOut.competitionLevel = "SATURATED"

(***************************************************************************)
(* Properties of PlacesService (checked under SpecService)                 *)
(***************************************************************************)
\* formatAgentResponseDirect ran on a response and returned
Extracted == svcFormat.called /\ ~svcFormat.raised

\* the text the extractor worked on, and the object it decoded from it
ExtractedText == ResponseText(svcIn.response).body
ExtractedObject == JsonContent(ExtractedText)

\* C14: when the structured object extracted from the agent's text has the
\* shape {type: "FeatureCollection", features: array}, the outcome's mapData is
\* that FeatureCollection; for other objects the analysis is the `analysis`
\* field or the whole object and the map data is the `mapData`/`map` field.
C14_FeatureCollectionIsMapData ==
    Extracted =>
        /\ ExtractedObject.kind = "fc" =>
              svcFormat.response.mapData = Collection(ExtractedObject.features)
        /\ ExtractedObject.kind = "object" =>
              /\ svcFormat.response.analysis \in
                    {AnalysisField(ExtractedObject), WholeObject(ExtractedObject),
                     SummaryOfText}
              /\ IsTruthyMap(MapDataOf(ExtractedObject)) =>
                    svcFormat.response.mapData = MapDataOf(ExtractedObject)

\* every part of the text where an object could be written
Candidates(t) == {t.firstFence.content, t.laterJsonFence, t.inline}

\* the text holds no structured data: nothing in it decodes to an object
HoldsNoStructuredData(t) == \A c \in Candidates(t) : c.kind \notin {"fc", "object"}

\* C15: formatAgentResponseDirect never raises: for every agent response
\* (missing or empty text, a fenced block that is not valid JSON, unbalanced
\* braces, tool results absent, not a list or with null entries) it returns an
\* outcome that carries the response text; when the text holds no structured
\* data the outcome is text-only: its analysis and map data are not taken from
\* JSON in the text.
C15_ExtractorNeverRaises ==
    svcFormat.called =>
        /\ ~svcFormat.raised
        /\ svcPc = "returned"
        /\ svcOut = svcFormat.response
        /\ svcOut.text = ResponseText(svcIn.response)
        /\ HoldsNoStructuredData(ExtractedText) =>
              /\ svcOut.analysis \in {EmptyAnalysis, SummaryOfText}
              /\ svcOut.mapData.kind \in {"null", "fc"}
              /\ \A i \in 1..Len(svcOut.mapData.features) :
                    svcOut.mapData.features[i].source # "agent"

\* the loop over tool results threw on a null entry, after a fenced block
\* that is not valid JSON, and the outcome was returned
C15_Witness ==
    /\ svcFormat.called
    /\ svcPc = "returned"
    /\ svcIn.response.text.kind = "text"
    /\ svcIn.response.text.body.firstFence = [tag |-> "json", content |-> InvalidJson]
    /\ svcIn.response.toolResults.kind = "list"
    /\ \E i \in 1..Len(svcIn.response.toolResults.entries) :
          svcIn.response.toolResults.entries[i] = NullEntry
    /\ svcOut.analysis = SummaryOfText

\* the elements of a sequence
Range(seq) == {seq[i] : i \in 1..Len(seq)}

\* the features the upstream response reports: those written in its text and
\* those of its tool results
FeaturesOfCapture(c) ==
    Range(c.features) \cup Range(c.mapData.features) \cup Range(c.map.features)
ReportedFeatures ==
    UNION {FeaturesOfCapture(c) : c \in Candidates(ExtractedText)}
        \cup UNION {Range(e.map.features) : e \in Range(svcIn.response.toolResults.entries)}

\* C16: the mapData of every outcome is null or a FeatureCollection with at
\* least one feature, every feature in it comes from the upstream response or
\* from a provider result, and mapData is null when neither the text nor a
\* tool result carries map data.
C16_MapDataNullOrReported ==
    svcPc = "returned" =>
        /\ \/ svcOut.mapData.kind = "null"
           \/ svcOut.mapData.kind = "fc" /\ Len(svcOut.mapData.features) >= 1
        /\ Range(svcOut.mapData.features) \subseteq ReportedFeatures
        /\ ReportedFeatures = {} => svcOut.mapData.kind = "null"

\* the FeatureCollection the upstream response decodes to: the decoded object
\* itself, or its mapData/map field
DecodedMap ==
    IF ExtractedObject.kind = "fc" THEN Collection(ExtractedObject.features)
    ELSE IF ExtractedObject.kind = "object" THEN MapDataOf(ExtractedObject)
    ELSE NullMap

\* C17: when the upstream response already decodes to a FeatureCollection with
\* N >= 1 features, the outcome's mapData is exactly that collection and no
\* later stage runs: no tool result is scanned and no fallback generates map
\* data.
C17_PromotedMapShortCircuits ==
    (Extracted /\ DecodedMap.kind = "fc" /\ Len(DecodedMap.features) >= 1) =>
        /\ svcOut.mapData = DecodedMap
        /\ svcFormat.stages = <<"json">>

\* a tool result from which map data can be taken
UsableToolResults ==
    \E e \in Range(svcIn.response.toolResults.entries) : e.kind \in {"fc", "wrapped", "payload"}

\* C18: when the response holds no promotable map data, no usable tool results
\* are attached and the text is not JSON, the stages run in order up to the
\* deterministic seed search (a provider search on the location phrase, then
\* feature synthesis), whose collection, or null, is returned.
C18_ReachesSeedSearch ==
    (Extracted /\ HoldsNoStructuredData(ExtractedText) /\ ~UsableToolResults) =>
        /\ Len(svcFormat.stages) >= 1
        /\ svcFormat.stages[Len(svcFormat.stages)] = "seedSearch"
        /\ \A i \in 1..Len(svcOut.mapData.features) :
              svcOut.mapData.features[i].source = "tomtom-fuzzy-search"

\* the text of an error outcome
ErrorLine(agentType, message) ==
    "Error processing " \o agentType \o " query: " \o message

\* C19: every domain query operation returns an outcome with a non-empty text
\* and a success flag; success is true exactly when the agent was found and
\* its generation returned; otherwise the text is
\* 'Error processing <domain> query: <message>' and mapData is null.
C19_DomainQueryAlwaysAnswers ==
    svcPc = "returned" =>
        /\ svcOut.text.kind \in {"text", "default", "error"}
        /\ svcOut.text.kind \in {"default", "error"} => svcOut.text.message # ""
        /\ svcOut.success \in BOOLEAN
        /\ svcOut.success <=> svcIn.kind = "response"
        /\ ~svcOut.success =>
              /\ svcOut.text.kind = "error"
              /\ svcOut.text.message =
                    ErrorLine(svcOp, IF svcIn.kind = "error" THEN svcIn.message
                                     ELSE NotAvailable(svcOp))
              /\ svcOut.mapData = NullMap

\* generation failed with an empty message in the retail operation
C19_Witness ==
    /\ svcPc = "returned"
    /\ svcOp = "retail"
    /\ svcIn = GenerateFailed("")
    /\ svcOut.text.message = "Error processing retail query: "
    /\ ~svcOut.success

(***************************************************************************)
(* Further properties of formatMapDataTool (checked under SpecFormat)      *)
(***************************************************************************)
\* the providers in the order their branches run
ProviderOrder == <<"tomtom", "details", "insights", "events", "ip", "poi", "placeById">>
OrderIndex(p) == CHOOSE i \in 1..Len(ProviderOrder) : ProviderOrder[i] = p

ReportsFiniteCoordinates(r) == r.pos /\ IsFiniteNumber(r.lat) /\ IsFiniteNumber(r.lon)

\* the records of provider p's payload that report finite coordinates, and the
\* features tagged with p's source, both in order
FiniteRecords(p) == SelectSeq(Lookup(rawData, p).recs, ReportsFiniteCoordinates)
IsFeatureOf(p, f) == ProviderOfSource(f.source) = p
FeaturesOf(p) == SelectSeq(fmtOut.features, LAMBDA f : IsFeatureOf(p, f))

\* C20: for each recognized provider payload every record that reports finite
\* coordinates, 0 included, yields exactly one Feature tagged with that
\* provider's source; features come in insertion order (providers in a fixed
\* order, records in payload order), so there are as many features as records
\* with finite coordinates.
C20_OneFeaturePerFiniteRecord ==
    fmtPc = "done" =>
        /\ \A p \in Providers \ {"insights"} :
              /\ Len(FeaturesOf(p)) = Len(FiniteRecords(p))
              /\ \A i \in 1..Len(FeaturesOf(p)) :
                    /\ i <= Len(FiniteRecords(p))
                    /\ FeaturesOf(p)[i].lon = FiniteRecords(p)[i].lon
                    /\ FeaturesOf(p)[i].lat = FiniteRecords(p)[i].lat
        /\ \A i, j \in 1..Len(fmtOut.features) :
              i < j => OrderIndex(ProviderOfSource(fmtOut.features[i].source))
                         <= OrderIndex(ProviderOfSource(fmtOut.features[j].source))

\* the outcome's payload is the object j: its analysis is taken from j (or is
\* the text summary of the catch block) and its map data is j's, if j has any
PayloadIs(j) ==
    /\ svcFormat.response.analysis \in {AnalysisOf(j), SummaryOfText}
    /\ IsTruthyMap(MapDataOf(j)) => svcFormat.response.mapData = MapDataOf(j)

\* C23: the extractor takes the object of a json-tagged fence, else of a
\* generic fence, and when the text has no fenced block but an object written
\* inline that is valid JSON, it parses that object and uses it as the payload
C23_InlineObjectIsPayload ==
    Extracted =>
        LET t == ExtractedText IN
        /\ (t.firstFence.tag = "json" /\ t.firstFence.content.kind = "object")
              => PayloadIs(t.firstFence.content)
        /\ (t.firstFence.tag = "generic" /\ t.firstFence.content.kind = "object"
                /\ t.laterJsonFence.kind # "object")
              => PayloadIs(t.firstFence.content)
        /\ (t.firstFence = NoFence /\ t.inline.kind = "object") => PayloadIs(t.inline)

\* the tool results produced during the request: one per tool that ran
ToolResultsProduced == Len(svcIn.response.toolResults.entries)

\* C24: toolsUsed reflects what ran: every tool it lists was invoked in the
\* request, so it lists no more tools than tool results were produced, and
\* none when no tool ran (the modelled agent JSON declares no tools)
C24_ToolsUsedWereInvoked ==
    (svcFormat.called /\ svcPc = "returned" /\ svcOut.success)
        => Cardinality(Range(svcOut.toolsUsed)) <= ToolResultsProduced

(***************************************************************************)
(* Properties of concurrent executePlanTool invocations (SpecBatch)        *)
(***************************************************************************)
Settled(inv) == {i \in 1..batches[inv].started : i \notin batches[inv].inflight}

\* C21: the dispatcher runs the tools in request order, one at a time: the
\* items begun are a prefix of the plan, and while the tool of an item is
\* pending it is the last item begun and every item before it has returned
\* or thrown
C21_OneToolAtATimeInOrder ==
    \A inv \in DOMAIN batches :
        \A i \in batches[inv].inflight :
            /\ i = batches[inv].started
            /\ \A j \in 1..(i - 1) : j \in Settled(inv)

\* the second tool of a two-tool plan is pending after the first one threw,
\* while the other invocation has a tool pending as well
C21_Witness ==
    /\ DOMAIN batches = Invocations
    /\ batches[1].started = 2 /\ batches[1].inflight = {2}
    /\ batches[1].outcomes[1].kind = "throw"
    /\ batches[2].inflight # {}

\* the entry one iteration stores for a plan item that ended with outcome
EntryStored(id, outcome) == LoopBody(EmptyResults, id, outcome).results

\* C26: whatever the interleaving of two invocations, the mapping an
\* invocation returns holds only entries of its own plan: each key is the
\* canonical id of one of its items and the entry is what that item produced
C26_ResultsAreOwn ==
    \A inv \in DOMAIN batches :
        batches[inv].pc = "returned" =>
            \A k \in DOMAIN batches[inv].out :
                \E i \in Settled(inv) :
                    LET entry == EntryStored(batches[inv].plan[i], batches[inv].outcomes[i])
                    IN  k \in DOMAIN entry /\ batches[inv].out[k] = entry[k]

\* an invocation returned its own entry while the other one, whose plan uses
\* other tools, had stored an entry and was waiting for its second tool
C26_Witness ==
    /\ DOMAIN batches = Invocations
    /\ batches[1].pc = "returned" /\ DOMAIN batches[1].out = {"get-weather"}
    /\ batches[2].inflight = {2}
    /\ DOMAIN store[2] = {"tomtom-fuzzy-search"}

(***************************************************************************)
(* Properties of processUnifiedChat (checked under SpecUnified)            *)
(***************************************************************************)
\* the handler the request was delegated to failed: it threw, or it returned
\* an outcome with success = false
HandlerFailed ==
    \/ uniHandler.kind = "threw"
    \/ uniHandler.kind = "returned" /\ uniHandler.route = "analysis"
          /\ ~uniHandler.result.success

\* C30: processUnifiedChat reports success = false whenever the handler it
\* delegated to failed; on the analysis route, an outcome of
\* processUrbanPlanningQuery with success = false is not passed on with
\* success = true
C30_UnifiedReportsHandlerFailure ==
    (uniPc = "returned" /\ HandlerFailed) => ~uniOut.success

====
